---- MODULE Spec2Model ----
(***************************************************************************)
(* Model of the reservation ETL backend: the fetch retry executor          *)
(* (ScraperClient.retry_scraping) and the run orchestrator                 *)
(* (execute_etl_process) with the per-store unit it runs in its loop.      *)
(*                                                                         *)
(* and the normalization engine (DataTransformer) with the stage-to-main   *)
(* merge and the date window (StoreMasterService.calculate_date_range).    *)
(*                                                                         *)
(* Specifications:                                                         *)
(*   SpecRetry   one call of retry_scraping against a scripted scrape stub *)
(*   SpecFetch   one call of retry_scraping over scrape_reservation_data   *)
(*   Spec        one run of execute_etl_process                            *)
(*   SpecRow     one source row, normalized and merged in two runs         *)
(*   SpecNorm    a list of source rows, normalized and merged in two runs  *)
(*   SpecWindow  calculate_date_range on one store configuration           *)
(*   SpecDirectory  one run reading the store directory (get_active_stores)*)
(*   SpecCell    one call of _normalize_date or of _normalize_integer      *)
(*   SpecObject  one call of GCSService._generate_object_name              *)
(*   SpecBatch   one call of ScraperClient.batch_scrape, tasks interleaved *)
(***************************************************************************)
EXTENDS Integers, Sequences, FiniteSets, TLC

VARIABLES
    \* ---- retry_scraping (one call in progress at a time) ----
    max_retries,       \* the max_retries argument of the call
    script,            \* the scrape stub: outcome of its k-th invocation
    attempt,           \* loop variable of `for attempt in range(1, max_retries + 1)`
    last_error,        \* local last_error
    calls,             \* invocations of scrape_reservation_data made by this call
    sleeps,            \* the backoff delays (ms) waited so far, in order
    r_pc,              \* idle | scraping | sleeping | returned
    r_result,          \* the ScrapingResponse returned
    \* ---- execute_etl_process ----
    o_pc,              \* start | loop | merging | done | empty | fatal
    run_id,            \* the run's run_id
    stores,            \* list returned by get_active_stores
    idx,               \* position of the for loop over stores (1-based)
    unit,              \* per store: where its unit is
    results,           \* local results list
    successful_stores, \* local counter
    failed_stores,     \* local counter
    total_records,     \* local counter
    scrape_calls,      \* per store: scrape invocations of finished fetches
    transform_calls,   \* per store: transform_csv invocations
    upload_calls,      \* per store: upload_csv_file invocations
    load_calls,        \* per store: load_data_from_gcs invocations
    merge_calls,       \* run_ids passed to merge_stage_to_main, in order
    summary,           \* the completion report ("ETL処理完了"), <<>> until logged
    \* ---- DataTransformer._normalize_data and the merge ----
    n_pc,              \* idle | rows | staged | merged
    n_store,           \* the store dict of the file being transformed
    n_run,             \* which run of the same file this is (1 or 2)
    raw_data,          \* the rows of the source file, in order
    n_index,           \* position of `for index, row in raw_data.iterrows()`
    normalized_data,   \* local normalized_data
    n_skipped,         \* indexes whose normalization raised (the except branch)
    first_output,      \* normalized_data of run 1, kept for comparison
    durable,           \* the main table reservations_rb
    merge_log,         \* per merge: rows inserted, updated, left untouched
    \* ---- StoreMasterService.calculate_date_range ----
    w_pc,              \* idle | returned | raised
    w_store,           \* the store configuration passed in
    w_range,           \* the date_range returned
    \* ---- ScraperClient.scrape_reservation_data ----
    http,              \* what the k-th POST to the scraper service ends in
    \* ---- StoreMasterService.get_active_stores and the run that calls it ----
    sheet,             \* data rows of the Stores sheet (values[1:])
    d_pc,              \* idle | start | loop | done | empty | fatal
    d_stores,          \* the list get_active_stores returned
    d_idx,             \* position of the run's for loop over d_stores
    d_units,           \* store_ids whose unit the run has executed, in order
    \* ---- run_etl ----
    response,          \* the ETLRunResponse the caller of the run received
    \* ---- one call of a cell normalizer of DataTransformer ----
    c_pc,              \* idle | called | returned
    c_fn,              \* which normalizer: "date" or "integer"
    c_in,              \* the cell passed in
    c_case,            \* the pattern and calendar date a date input was written from
    c_out,             \* the value returned
    \* ---- GCSService._generate_object_name ----
    g_pc,              \* idle | called | returned
    g_now,             \* datetime.now() of the call (year, month, day)
    g_path,            \* local_file_path, as the list of its path segments
    g_options,         \* the options dict
    g_name,            \* the object name returned
    \* ---- ScraperClient.batch_scrape ----
    b_pc,              \* idle | called | gathering | returned
    b_stores,          \* the stores passed in (their store_id), in order
    b_tasks,           \* per store: the retry_scraping task gather runs
    b_order,           \* the tasks that have finished, in completion order
    b_results          \* the list returned

retry_vars == <<max_retries, script, attempt, last_error, calls, sleeps, r_pc, r_result>>
orch_vars == <<o_pc, run_id, stores, idx, unit, results, successful_stores,
               failed_stores, total_records, scrape_calls, transform_calls,
               upload_calls, load_calls, merge_calls, summary>>
norm_vars == <<n_pc, n_store, n_run, raw_data, n_index, normalized_data,
               n_skipped, first_output, durable, merge_log>>
win_vars == <<w_pc, w_store, w_range>>
dir_vars == <<sheet, d_pc, d_stores, d_idx, d_units>>
cell_vars == <<c_pc, c_fn, c_in, c_case, c_out>>
gcs_vars == <<g_pc, g_now, g_path, g_options, g_name>>
batch_vars == <<b_pc, b_stores, b_tasks, b_order, b_results>>
svc_vars == <<http, dir_vars, response, cell_vars, gcs_vars, batch_vars>>
other_vars == <<norm_vars, win_vars, svc_vars>>
vars == <<retry_vars, orch_vars, other_vars>>

----------------------------------------------------------------------------
\* Bounds of the model

MaxRetriesBound == 3
MaxStores == 3
MaxRows == 1
Today == 4
HugeDaysBack == 9

----------------------------------------------------------------------------
\* Values

\* Python None, as an error value (errors are tuples of message parts)
None == <<"None">>

\* error messages a failed scrape attempt can carry
Errors == {<<"e1">>, <<"e2">>}

\* what one invocation of scrape_reservation_data can do
OkOutcome == [kind |-> "ok", error |-> None]
FailOutcome(e) == [kind |-> "fail", error |-> e]
RaiseOutcome(e) == [kind |-> "raise", error |-> e]
AllOutcomes == {OkOutcome} \cup {FailOutcome(e) : e \in Errors \cup {None}}
                           \cup {RaiseOutcome(e) : e \in Errors}

ScriptLen == MaxRetriesBound + 1
Scripts(outs) == [1..ScriptLen -> outs]

\* the stub that fails on its first n invocations and succeeds afterwards
ScriptFailingFirst(n, e) ==
    [k \in 1..ScriptLen |-> IF k <= n THEN FailOutcome(e) ELSE OkOutcome]

\* stubs used for the stores of a run: succeed at once, succeed on the second
\* attempt, never succeed
RunScripts == {ScriptFailingFirst(n, <<"e1">>) : n \in {0, 1, ScriptLen}}

NoResult == [success |-> FALSE, error |-> <<>>]
SuccessResponse == [success |-> TRUE, error |-> None]
FailureResponse(e) == [success |-> FALSE, error |-> e]

----------------------------------------------------------------------------
\* ScraperClient.scrape_reservation_data.  The POST to the scraper service
\* ends in a response (status code and body; for a status other than 200 the
\* text field is response.text, for a 200 it is the error of the body), in
\* httpx.TimeoutException, or in another exception (text is str(e)).

HttpResponse(status, ok, text) ==
    [kind |-> "response", status |-> status, success |-> ok, text |-> text]
HttpTimeout ==
    [kind |-> "timeout", status |-> "", success |-> FALSE, text |-> None]
HttpException(text) ==
    [kind |-> "exception", status |-> "", success |-> FALSE, text |-> text]

HttpEvents ==
    {HttpResponse("200", TRUE, None), HttpResponse("200", FALSE, None),
     HttpResponse("200", FALSE, <<"e1">>), HttpResponse("500", FALSE, <<"e2">>),
     HttpTimeout, HttpException(<<"e2">>)}

\* f"スクレイピングタイムアウト（{self.timeout}秒）"
TimeoutError == <<"timeout">>

\* f"HTTP {response.status_code}: {response.text}"
HttpError(h) == <<"HTTP ", h.status, ": ">> \o h.text

\* mutant: a 200 response is a success whatever its body says
ScrapeBodyIgnored(h) ==
    IF h.kind = "response" /\ h.status = "200" THEN OkOutcome
    ELSE FailOutcome(h.text)

\* the ScrapingResponse returned when the POST ends in h
scrape_reservation_data(h) ==
    IF h.kind = "response"
    THEN IF h.status = "200"
         THEN IF h.success THEN OkOutcome ELSE FailOutcome(h.text)
         ELSE FailOutcome(HttpError(h))
    ELSE IF h.kind = "timeout"
         THEN FailOutcome(TimeoutError)
         ELSE FailOutcome(h.text)

\* the scrape stub that the POST results hs make
ScriptOf(hs) == [k \in 1..Len(hs) |-> scrape_reservation_data(hs[k])]

----------------------------------------------------------------------------
\* ScraperClient.retry_scraping

DefaultMaxRetries == 3
RetryDelay == 1000

RECURSIVE Pow2(_)
Pow2(n) == IF n <= 0 THEN 1 ELSE 2 * Pow2(n - 1)

\* mutant: the same delay before every retry
BackoffConstant(a) == RetryDelay

\* delay = settings.retry_delay * (2 ** (attempt - 1))
BackoffDelay(a) == RetryDelay * Pow2(a - 1)

\* mutant: range(1, max_retries), one attempt short
InRangeShort(a, m) == a >= 1 /\ a < m

\* attempt in range(1, max_retries + 1)
\* mutant: range(1, max_retries + 2), one attempt more
InRangeOneMore(a, m) == a >= 1 /\ a < m + 2

InRange(a, m) == a >= 1 /\ a < m + 1

\* mutant: no wait, the next attempt follows at once
AttemptsRemainNever(a, m) == FALSE

\* if attempt < max_retries: (wait before the next attempt)
AttemptsRemain(a, m) == a < m

\* mutant: the first error is kept, later ones are dropped
KeepFirstError(prev, o) == IF prev = None THEN o.error ELSE prev

\* last_error = result.error   /   last_error = str(e)
UpdateLastError(prev, o) == o.error

\* f"スクレイピングが最大試行回数に達しました: {last_error}"
MaxRetriesError(e) == <<"max_retries_reached">> \o e

\* top of the for loop with loop value a: invoke the scrape, or leave the loop
\* and return the final failure built from le
LoopHead(a, le) ==
    IF InRange(a, max_retries)
    THEN /\ attempt' = a
         /\ calls' = calls + 1
         /\ r_pc' = "scraping"
         /\ r_result' = r_result
    ELSE /\ attempt' = attempt
         /\ calls' = calls
         /\ r_pc' = "returned"
         /\ r_result' = FailureResponse(MaxRetriesError(le))

\* entry of retry_scraping(store, from, to, run_id, m) against stub sc, up to
\* its first await
RetryCall(m, sc) ==
    /\ max_retries' = m
    /\ script' = sc
    /\ last_error' = None
    /\ sleeps' = <<>>
    /\ IF InRange(1, m)
       THEN /\ attempt' = 1
            /\ calls' = 1
            /\ r_pc' = "scraping"
            /\ r_result' = NoResult
       ELSE /\ attempt' = 0
            /\ calls' = 0
            /\ r_pc' = "returned"
            /\ r_result' = FailureResponse(MaxRetriesError(None))

\* a standalone call (the /api/scrape endpoint) starts
RetryStart ==
    /\ r_pc = "idle"
    /\ RetryCall(max_retries, script)
    /\ UNCHANGED orch_vars
    /\ UNCHANGED other_vars

\* await self.scrape_reservation_data(...) completes
ScrapeReturns ==
    /\ r_pc = "scraping"
    /\ LET o == script[calls] IN
       IF o.kind = "ok"
       THEN /\ r_result' = SuccessResponse
            /\ r_pc' = "returned"
            /\ UNCHANGED <<attempt, calls, last_error, sleeps>>
       ELSE /\ last_error' = UpdateLastError(last_error, o)
            /\ IF AttemptsRemain(attempt, max_retries)
               THEN /\ sleeps' = Append(sleeps, BackoffDelay(attempt))
                    /\ r_pc' = "sleeping"
                    /\ UNCHANGED <<attempt, calls, r_result>>
               ELSE /\ sleeps' = sleeps
                    /\ LoopHead(attempt + 1, last_error')
    /\ UNCHANGED <<max_retries, script>>
    /\ UNCHANGED orch_vars
    /\ UNCHANGED other_vars

\* await asyncio.sleep(delay / 1000) completes
SleepReturns ==
    /\ r_pc = "sleeping"
    /\ LoopHead(attempt + 1, last_error)
    /\ UNCHANGED <<max_retries, script, last_error, sleeps>>
    /\ UNCHANGED orch_vars
    /\ UNCHANGED other_vars

----------------------------------------------------------------------------
\* StoreMasterService.calculate_date_range (dates are day ordinals)

\* a store config without an explicit bound has from_date / to_date None
NoDate == 0

\* ordinal of datetime.date.min: a date below it raises OverflowError
DateMin == 1

StoreConfig(d, f, t) == [days_back |-> d, from_date |-> f, to_date |-> t]

\* store configs of a run: a one-day look-back, and a days_back so large that
\* today - timedelta(days=1 + days_back) leaves the calendar
RunStoreConfigs == {StoreConfig(0, NoDate, NoDate), StoreConfig(HugeDaysBack, NoDate, NoDate)}

calculate_date_range_fixed(store) ==
    IF store.from_date # NoDate /\ store.to_date # NoDate
    THEN [raised |-> FALSE, from_date |-> store.from_date, to_date |-> store.to_date]
    ELSE [raised |-> FALSE, from_date |-> Today - 1, to_date |-> Today]

calculate_date_range(store) ==
    IF store.from_date # NoDate /\ store.to_date # NoDate
    THEN [raised |-> FALSE, from_date |-> store.from_date, to_date |-> store.to_date]
    ELSE LET from_date_obj == Today - (1 + store.days_back) IN
         IF from_date_obj < DateMin
         THEN [raised |-> TRUE, from_date |-> NoDate, to_date |-> NoDate]
         ELSE [raised |-> FALSE, from_date |-> from_date_obj, to_date |-> Today]

----------------------------------------------------------------------------
\* execute_etl_process

Terminal == {"Succeeded", "Failed"}

\* load_job.output_rows is Optional[int]: a count, or None
NoCount == 0 - 1
OutputRows == {NoCount} \cup 0..MaxRows

NumStores == Len(stores)

RetryReset ==
    /\ max_retries' = 0
    /\ script' = ScriptFailingFirst(0, <<"e1">>)
    /\ attempt' = 0
    /\ last_error' = None
    /\ calls' = 0
    /\ sleeps' = <<>>
    /\ r_pc' = "idle"
    /\ r_result' = NoResult

SuccessEntry(s, rows) == [store_id |-> s, success |-> TRUE, records |-> rows]
FailureEntry(s, err) == [store_id |-> s, success |-> FALSE, error |-> err]

\* mutant: every store's unit may run, whatever the loop position
AnyStore(s) == TRUE

\* the store the for loop is at
IsCurrent(s) == s = idx

\* mutant: the loop stops before its last store
LoopDoneEarly(i, n) == i >= n

\* the for loop over stores is exhausted
LoopDone(i, n) == i > n

\* mutant: an empty store list is processed like any other
NeverEmpty(n) == FALSE

\* if not stores: return
NoStores(n) == n = 0

\* mutant: the failure check after the fetch is missing
NeverFailed(res) == FALSE

\* if not scraping_result.success:
ScrapeFailed(res) == ~res.success

\* mutant: a store's exception leaves the loop and ends the run
StoreFailedAborts(s, err) ==
    /\ failed_stores' = failed_stores + 1
    /\ results' = Append(results, FailureEntry(s, err))
    /\ unit' = [unit EXCEPT ![s] = "Failed"]
    /\ idx' = idx
    /\ o_pc' = "fatal"

\* mutant: a store's exception is followed by another try of the same store
StoreFailedRetries(s, err) ==
    /\ failed_stores' = failed_stores
    /\ results' = results
    /\ unit' = [unit EXCEPT ![s] = "Start"]
    /\ idx' = idx
    /\ o_pc' = o_pc

\* except Exception as e: (of the loop body), then the next store
StoreFailed(s, err) ==
    /\ failed_stores' = failed_stores + 1
    /\ results' = Append(results, FailureEntry(s, err))
    /\ unit' = [unit EXCEPT ![s] = "Failed"]
    /\ idx' = idx + 1
    /\ o_pc' = o_pc

\* stores = await store_svc.get_active_stores(); if not stores: return
GetActiveStores ==
    /\ o_pc = "start"
    /\ \/ /\ o_pc' = "fatal"
          /\ UNCHANGED <<stores, idx, unit, scrape_calls, transform_calls,
                         upload_calls, load_calls>>
       \/ \E n \in 0..MaxStores : \E cfgs \in [1..n -> RunStoreConfigs] :
            /\ stores' = cfgs
            /\ o_pc' = IF NoStores(n) THEN "empty" ELSE "loop"
            /\ idx' = IF NoStores(n) THEN idx ELSE 1
            /\ unit' = [s \in 1..n |-> "Start"]
            /\ scrape_calls' = [s \in 1..n |-> 0]
            /\ transform_calls' = [s \in 1..n |-> 0]
            /\ upload_calls' = [s \in 1..n |-> 0]
            /\ load_calls' = [s \in 1..n |-> 0]
    /\ UNCHANGED <<run_id, results, successful_stores, failed_stores,
                   total_records, merge_calls, summary>>
    /\ UNCHANGED retry_vars
    /\ UNCHANGED other_vars

\* loop body up to its first await: calculate_date_range, then the call of
\* retry_scraping with the default max_retries
BeginStore ==
    /\ o_pc = "loop"
    /\ \E s \in 1..NumStores :
        /\ IsCurrent(s)
        /\ unit[s] = "Start"
        /\ IF calculate_date_range(stores[s]).raised
           THEN /\ StoreFailed(s, <<"OverflowError">>)
                /\ UNCHANGED retry_vars
           ELSE /\ unit' = [unit EXCEPT ![s] = "Fetching"]
                /\ \E sc \in RunScripts : RetryCall(DefaultMaxRetries, sc)
                /\ UNCHANGED <<o_pc, idx, results, failed_stores>>
    /\ UNCHANGED <<run_id, stores, successful_stores, total_records, scrape_calls,
                   transform_calls, upload_calls, load_calls, merge_calls, summary>>
    /\ UNCHANGED other_vars

\* retry_scraping returned: if not scraping_result.success: ... continue;
\* otherwise transform_csv is called
FetchReturns ==
    /\ o_pc = "loop"
    /\ \E s \in 1..NumStores :
        /\ IsCurrent(s)
        /\ unit[s] = "Fetching"
        /\ r_pc = "returned"
        /\ scrape_calls' = [scrape_calls EXCEPT ![s] = calls]
        /\ IF ScrapeFailed(r_result)
           THEN /\ failed_stores' = failed_stores + 1
                /\ results' = Append(results, FailureEntry(s, r_result.error))
                /\ unit' = [unit EXCEPT ![s] = "Failed"]
                /\ idx' = idx + 1
                /\ UNCHANGED transform_calls
           ELSE /\ unit' = [unit EXCEPT ![s] = "Normalizing"]
                /\ transform_calls' = [transform_calls EXCEPT ![s] = @ + 1]
                /\ UNCHANGED <<failed_stores, results, idx>>
    /\ RetryReset
    /\ UNCHANGED <<o_pc, run_id, stores, successful_stores, total_records,
                   upload_calls, load_calls, merge_calls, summary>>
    /\ UNCHANGED other_vars

\* await transform_svc.transform_csv(...) completes: raises, or returns and
\* upload_csv_file is called
TransformReturns ==
    /\ o_pc = "loop"
    /\ \E s \in 1..NumStores :
        /\ IsCurrent(s)
        /\ unit[s] = "Normalizing"
        /\ \/ /\ StoreFailed(s, <<"TransformError">>)
              /\ UNCHANGED upload_calls
           \/ /\ unit' = [unit EXCEPT ![s] = "Staging"]
              /\ upload_calls' = [upload_calls EXCEPT ![s] = @ + 1]
              /\ UNCHANGED <<o_pc, idx, results, failed_stores>>
    /\ UNCHANGED <<run_id, stores, successful_stores, total_records, scrape_calls,
                   transform_calls, load_calls, merge_calls, summary>>
    /\ UNCHANGED retry_vars
    /\ UNCHANGED other_vars

\* await gcs_svc.upload_csv_file(...) completes: raises, or returns and
\* load_data_from_gcs is called
UploadReturns ==
    /\ o_pc = "loop"
    /\ \E s \in 1..NumStores :
        /\ IsCurrent(s)
        /\ unit[s] = "Staging"
        /\ \/ /\ StoreFailed(s, <<"UploadError">>)
              /\ UNCHANGED load_calls
           \/ /\ unit' = [unit EXCEPT ![s] = "Loading"]
              /\ load_calls' = [load_calls EXCEPT ![s] = @ + 1]
              /\ UNCHANGED <<o_pc, idx, results, failed_stores>>
    /\ UNCHANGED <<run_id, stores, successful_stores, total_records, scrape_calls,
                   transform_calls, upload_calls, merge_calls, summary>>
    /\ UNCHANGED retry_vars
    /\ UNCHANGED other_vars

\* successful_stores += 1; total_records += load_result['output_rows'];
\* results.append({... 'success': True ...}): with output_rows None the sum
\* raises TypeError after the first increment, and the except branch runs
RecordSuccess(s, rows) ==
    IF rows = NoCount
    THEN /\ successful_stores' = successful_stores + 1
         /\ total_records' = total_records
         /\ StoreFailed(s, <<"TypeError">>)
    ELSE /\ successful_stores' = successful_stores + 1
         /\ total_records' = total_records + rows
         /\ results' = Append(results, SuccessEntry(s, rows))
         /\ unit' = [unit EXCEPT ![s] = "Succeeded"]
         /\ idx' = idx + 1
         /\ UNCHANGED <<o_pc, failed_stores>>

\* await bq_svc.load_data_from_gcs(...) completes: raises, or returns
\* output_rows
LoadReturns ==
    /\ o_pc = "loop"
    /\ \E s \in 1..NumStores :
        /\ IsCurrent(s)
        /\ unit[s] = "Loading"
        /\ \/ /\ StoreFailed(s, <<"LoadError">>)
              /\ UNCHANGED <<successful_stores, total_records>>
           \/ \E rows \in OutputRows : RecordSuccess(s, rows)
    /\ UNCHANGED <<run_id, stores, scrape_calls, transform_calls, upload_calls,
                   load_calls, merge_calls, summary>>
    /\ UNCHANGED retry_vars
    /\ UNCHANGED other_vars

\* run_etl: the response returned once execute_etl_process is scheduled as a
\* background task; nothing writes to it afterwards
NoResponse == [run_id |-> "", success |-> FALSE, error |-> None, summary |-> <<>>]
run_etl(a_run_id) ==
    [run_id |-> a_run_id, success |-> TRUE, error |-> None,
     summary |-> <<[successful_stores |-> 0, failed_stores |-> 0,
                    total_records |-> 0]>>]

\* logger.info("ETL処理完了", ...)
CompletionReport ==
    <<[successful_stores |-> successful_stores, failed_stores |-> failed_stores,
       total_records |-> total_records]>>

\* if successful_stores > 0: (the merge is called)
ShouldMerge(n) == n > 0

\* after the loop: if successful_stores > 0 merge_stage_to_main(run_id) is
\* called, otherwise the completion is logged
AfterLoop ==
    /\ o_pc = "loop"
    /\ LoopDone(idx, NumStores)
    /\ IF ShouldMerge(successful_stores)
       THEN /\ merge_calls' = Append(merge_calls, run_id)
            /\ o_pc' = "merging"
            /\ UNCHANGED summary
       ELSE /\ summary' = CompletionReport
            /\ o_pc' = "done"
            /\ UNCHANGED merge_calls
    /\ UNCHANGED <<run_id, stores, idx, unit, results, successful_stores,
                   failed_stores, total_records, scrape_calls, transform_calls,
                   upload_calls, load_calls>>
    /\ UNCHANGED retry_vars
    /\ UNCHANGED other_vars

\* await bq_svc.merge_stage_to_main(run_id) completes: raises (the outer
\* except logs the error), or returns and the completion is logged
MergeReturns ==
    /\ o_pc = "merging"
    /\ \/ /\ o_pc' = "fatal"
          /\ UNCHANGED summary
       \/ /\ summary' = CompletionReport
          /\ o_pc' = "done"
    /\ UNCHANGED <<run_id, stores, idx, unit, results, successful_stores,
                   failed_stores, total_records, scrape_calls, transform_calls,
                   upload_calls, load_calls, merge_calls>>
    /\ UNCHANGED retry_vars
    /\ UNCHANGED other_vars

----------------------------------------------------------------------------
\* Text.  A Python str is the sequence of its characters; a character
\* outside ASCII is written as a token:
\*   "<nen>" 年   "<gatsu>" 月   "<nichi>" 日   "<ji>" 時   "<fun>" 分
\*   "<mei>" 名

DigitChars == <<"0", "1", "2", "3", "4", "5", "6", "7", "8", "9">>

\* str.isdigit on one character, and the digit's value
IsDigit(c) == \E d \in 1..Len(DigitChars) : DigitChars[d] = c
DigitValue(c) == (CHOOSE d \in 1..Len(DigitChars) : DigitChars[d] = c) - 1

\* whitespace, as str.strip() sees it
IsSpace(c) == c = " "

RECURSIVE LStrip(_)
LStrip(t) == IF t # <<>> /\ IsSpace(Head(t)) THEN LStrip(Tail(t)) ELSE t

RECURSIVE RStrip(_)
RStrip(t) ==
    IF t # <<>> /\ IsSpace(t[Len(t)]) THEN RStrip(SubSeq(t, 1, Len(t) - 1)) ELSE t

\* str.strip()
Strip(t) == RStrip(LStrip(t))

\* int(s) for a str of digits
RECURSIVE IntOf(_)
IntOf(t) ==
    IF t = <<>> THEN 0
    ELSE 10 * IntOf(SubSeq(t, 1, Len(t) - 1)) + DigitValue(t[Len(t)])

\* str(n) for an int n >= 0
RECURSIVE StrOfInt(_)
StrOfInt(n) ==
    IF n < 10 THEN <<DigitChars[n + 1]>>
    ELSE StrOfInt(n \div 10) \o <<DigitChars[(n % 10) + 1]>>

\* the zero padding of strftime's numeric directives
RECURSIVE ZeroPad(_, _)
ZeroPad(t, w) == IF Len(t) >= w THEN t ELSE ZeroPad(<<"0">> \o t, w)

\* the maximal run of digits a text starts with
RECURSIVE LeadingDigits(_)
LeadingDigits(t) ==
    IF t # <<>> /\ IsDigit(Head(t)) THEN <<Head(t)>> \o LeadingDigits(Tail(t))
    ELSE <<>>

----------------------------------------------------------------------------
\* Values

\* a cell of a source row, as pandas hands it to _normalize_row
NoneCell == [k |-> "none", t |-> <<>>]  \* dict.get of a column the row lacks
NaNCell == [k |-> "nan", t |-> <<>>]    \* float NaN: an empty CSV cell
StrCell(t) == [k |-> "str", t |-> t]
BadCell == [k |-> "bad", t |-> <<>>]    \* array-like: its truth test raises
\* a number of a numeric column, t being what str() makes of it: an integer n,
\* and the float n.0 of a column that also has empty cells
IntCell(n) == [k |-> "int", t |-> StrOfInt(n)]
FloatCell(n) == [k |-> "float", t |-> StrOfInt(n) \o <<".", "0">>]
ZeroTexts == {<<"0">>, <<"0", ".", "0">>}

\* pd.isna(value)
IsNa(value) == value.k \in {"none", "nan"}
\* bool(value): NaN is a non-zero float, hence true
Truthy(value) ==
    CASE value.k = "none" -> FALSE
      [] value.k = "nan" -> TRUE
      [] value.k \in {"int", "float"} -> value.t \notin ZeroTexts
      [] OTHER -> value.t # <<>>
\* `pd.isna(value) or not value` raises ValueError
RaisesOn(value) == value.k = "bad"
\* str(value)
PyStr(value) ==
    CASE value.k = "none" -> <<"N", "o", "n", "e">>
      [] value.k = "nan" -> <<"n", "a", "n">>
      [] OTHER -> value.t

\* a field of a normalized record: None, a str or an int
NoneV == [k |-> "none", n |-> 0, t |-> <<>>]
StrV(t) == [k |-> "str", n |-> 0, t |-> t]
IntV(n) == [k |-> "int", n |-> n, t |-> <<>>]

----------------------------------------------------------------------------
\* datetime.strptime, for the formats the transformer uses

Directives == {"%Y", "%m", "%d", "%H", "%M", "%S", "%f"}

\* how many digits a directive takes (the regular expressions of _strptime)
MinWidth(d) == IF d = "%Y" THEN 4 ELSE 1
MaxWidth(d) == CASE d = "%Y" -> 4 [] d = "%f" -> 6 [] OTHER -> 2
\* the values it accepts; %Y 0000 and %S 60, 61 match the regular expression
\* and are refused by the datetime constructor, a ValueError either way
MinValue(d) == IF d \in {"%Y", "%m", "%d"} THEN 1 ELSE 0
MaxValue(d) ==
    CASE d = "%Y" -> 9999
      [] d = "%m" -> 12
      [] d = "%d" -> 31
      [] d = "%H" -> 23
      [] d = "%M" -> 59
      [] d = "%S" -> 59
      [] d = "%f" -> 999999

\* datetime(1900, 1, 1): the fields a format does not set
StrptimeDefaults ==
    [d \in Directives |-> CASE d = "%Y" -> 1900
                            [] d \in {"%m", "%d"} -> 1
                            [] OTHER -> 0]

IsLeap(y) == (y % 4 = 0 /\ y % 100 # 0) \/ y % 400 = 0
DaysInMonth(y, m) ==
    CASE m = 2 -> IF IsLeap(y) THEN 29 ELSE 28
      [] m \in {4, 6, 9, 11} -> 30
      [] OTHER -> 31

\* match text t against the rest of a format, fields read so far in acc.
\* Every directive of these formats is followed by a non-digit literal or by
\* the end of the text, so it takes the whole run of digits in front of it.
RECURSIVE MatchFormat(_, _, _)

\* directive it of the format against the run of digits t starts with
MatchDirective(t, fmt, acc, it, run, n) ==
    IF /\ Len(run) >= MinWidth(it)
       /\ Len(run) <= MaxWidth(it)
       /\ n >= MinValue(it)
       /\ n <= MaxValue(it)
    THEN MatchFormat(SubSeq(t, Len(run) + 1, Len(t)), Tail(fmt),
                     [acc EXCEPT ![it] = n])
    ELSE [ok |-> FALSE, f |-> acc]

\* one item of the format: a directive, whitespace or a literal character
MatchItem(t, fmt, acc, it) ==
    IF it = "%d" /\ Len(t) >= 2 /\ IsSpace(t[1]) /\ IsDigit(t[2]) /\ t[2] # "0"
    THEN \* %d also takes a space and one digit
         MatchFormat(SubSeq(t, 3, Len(t)), Tail(fmt),
                     [acc EXCEPT ![it] = DigitValue(t[2])])
    ELSE IF it \in Directives
    THEN MatchDirective(t, fmt, acc, it, LeadingDigits(t), IntOf(LeadingDigits(t)))
    ELSE IF t = <<>> THEN [ok |-> FALSE, f |-> acc]
    ELSE IF IsSpace(it)
    THEN IF IsSpace(Head(t))
         THEN MatchFormat(LStrip(t), Tail(fmt), acc)
         ELSE [ok |-> FALSE, f |-> acc]
    ELSE IF Head(t) = it
         THEN MatchFormat(Tail(t), Tail(fmt), acc)
         ELSE [ok |-> FALSE, f |-> acc]

MatchFormat(t, fmt, acc) ==
    IF fmt = <<>> THEN [ok |-> t = <<>>, f |-> acc]
    ELSE MatchItem(t, fmt, acc, Head(fmt))

\* the datetime constructor refuses a day the month does not have
ValidDay(r) ==
    [ok |-> r.ok /\ r.f["%d"] <= DaysInMonth(r.f["%Y"], r.f["%m"]), f |-> r.f]

\* datetime.strptime(t, fmt): ok is FALSE where it raises ValueError
strptime(t, fmt) == ValidDay(MatchFormat(t, fmt, StrptimeDefaults))

\* the first format of the list that parses the text
RECURSIVE FirstParse(_, _)

\* except ValueError: continue
ParsedOrNext(r, t, fmts) == IF r.ok THEN r ELSE FirstParse(t, fmts)

FirstParse(t, fmts) ==
    IF fmts = <<>> THEN [ok |-> FALSE, f |-> StrptimeDefaults]
    ELSE ParsedOrNext(strptime(t, Head(fmts)), t, Tail(fmts))

\* parsed.strftime('%Y-%m-%d') and parsed.strftime('%H:%M:%S'); the C library
\* of the Linux image does not pad %Y (year 999 prints as 999)
FormatDate(f) ==
    StrOfInt(f["%Y"]) \o <<"-">> \o ZeroPad(StrOfInt(f["%m"]), 2)
        \o <<"-">> \o ZeroPad(StrOfInt(f["%d"]), 2)
FormatTime(f) ==
    ZeroPad(StrOfInt(f["%H"]), 2) \o <<":">> \o ZeroPad(StrOfInt(f["%M"]), 2)
        \o <<":">> \o ZeroPad(StrOfInt(f["%S"]), 2)

----------------------------------------------------------------------------
\* DataTransformer: the field normalizers

date_formats ==
    << <<"%Y", "-", "%m", "-", "%d">>,
       <<"%Y", "/", "%m", "/", "%d">>,
       <<"%m", "/", "%d", "/", "%Y">>,
       <<"%d", "/", "%m", "/", "%Y">>,
       <<"%Y", "<nen>", "%m", "<gatsu>", "%d", "<nichi>">>,
       <<"%m", "<gatsu>", "%d", "<nichi>">>,
       <<"%Y", "-", "%m", "-", "%d", " ", "%H", ":", "%M", ":", "%S">>,
       <<"%Y", "/", "%m", "/", "%d", " ", "%H", ":", "%M", ":", "%S">> >>

time_formats ==
    << <<"%H", ":", "%M", ":", "%S">>,
       <<"%H", ":", "%M">>,
       <<"%H", "<ji>", "%M", "<fun>">>,
       <<"%H", ":", "%M", ":", "%S", ".", "%f">>,
       <<"%H", ":", "%M", ":", "%S", ".", "%f", "Z">> >>

\* mutant: a text that no pattern parses gives None
DateOrNone(parsed_date, date_str) ==
    IF parsed_date.ok THEN StrV(FormatDate(parsed_date.f)) ELSE NoneV

\* return parsed_date.strftime('%Y-%m-%d'), or return date_str after the loop
DateOrVerbatim(parsed_date, date_str) ==
    IF parsed_date.ok THEN StrV(FormatDate(parsed_date.f)) ELSE StrV(date_str)

\* _normalize_date from `date_str = str(date_str).strip()` on
NormalizeDateText(date_str) ==
    IF date_str = <<>> THEN NoneV
    ELSE DateOrVerbatim(FirstParse(date_str, date_formats), date_str)

\* _normalize_date: None, the canonical date, or the stripped text verbatim
_normalize_date(date_str) ==
    IF IsNa(date_str) \/ ~Truthy(date_str) THEN NoneV
    ELSE NormalizeDateText(Strip(PyStr(date_str)))

\* return parsed_time.strftime('%H:%M:%S'), or return time_str after the loop
TimeOrVerbatim(parsed_time, time_str) ==
    IF parsed_time.ok THEN StrV(FormatTime(parsed_time.f)) ELSE StrV(time_str)

\* _normalize_time from `time_str = str(time_str).strip()` on
NormalizeTimeText(time_str) ==
    IF time_str = <<>> THEN NoneV
    ELSE TimeOrVerbatim(FirstParse(time_str, time_formats), time_str)

\* _normalize_time
_normalize_time(time_str) ==
    IF IsNa(time_str) \/ ~Truthy(time_str) THEN NoneV
    ELSE NormalizeTimeText(Strip(PyStr(time_str)))

\* _normalize_string
_normalize_string(value) ==
    IF IsNa(value) \/ ~Truthy(value) THEN NoneV
    ELSE LET normalized == Strip(PyStr(value)) IN
         IF normalized # <<>> THEN StrV(normalized) ELSE NoneV

\* str.isdigit holds for the decimal digits and also for characters such as
\* the superscript two, which int() does not accept
SuperscriptDigits == {"<sup2>"}
StrIsDigit(c) == IsDigit(c) \/ c \in SuperscriptDigits
IsDecimalText(t) == \A i \in 1..Len(t) : IsDigit(t[i])

\* if cleaned: return int(cleaned) / return None; the ValueError of int() is
\* caught and gives None
IntOrNone(cleaned) ==
    IF cleaned # <<>> /\ IsDecimalText(cleaned) THEN IntV(IntOf(cleaned)) ELSE NoneV

\* _normalize_integer
_normalize_integer(value) ==
    IF IsNa(value) \/ ~Truthy(value) THEN NoneV
    ELSE IntOrNone(SelectSeq(PyStr(value), StrIsDigit))

----------------------------------------------------------------------------
\* DataTransformer: one row.  A source row is the list of its cells in column
\* order, each [key |-> column label, value |-> cell]; a store is
\* [store_id |-> text, store_name |-> cell].

\* run_id of the n-th run, a fresh uuid4 each
RunIdOf(run) == IF run = 1 THEN "r1" ELSE "r2"
\* ingestion_ts = datetime.now(), one per call of _normalize_data
IngestionTsOf(run) == IF run = 1 THEN "t1" ELSE "t2"

\* self.column_mapping; the Japanese labels are written in romaji:
\*   tenpoID 店舗ID, tenpomei 店舗名, tenpo 店舗, yoyakubi 予約日, raitenbi 来店日,
\*   hizuke 日付, yoyakuuketsukebi 予約受付日, uketsukebi 受付日, tourokubi 登録日,
\*   yoyakujikan 予約時間, kaishijikan 開始時間, jikan 時間, shuuryoujikan 終了時間,
\*   koosumei コース名, puranmei プラン名, menyuumei メニュー名, koosu コース,
\*   ninzuu 人数, meisuu 名数, yoyakushasuu 予約者数, keiro 経路, baitai 媒体,
\*   ryuunyuumoto 流入元, yoyakusuteetasu 予約ステータス, suteetasu ステータス,
\*   joutai 状態, yoyakubangou 予約番号, bikou 備考, memo メモ
column_mapping ==
    [tenpoID |-> "store_id", tenpomei |-> "store_name", tenpo |-> "store_name",
     yoyakubi |-> "reserve_date", raitenbi |-> "reserve_date",
     hizuke |-> "reserve_date",
     yoyakuuketsukebi |-> "booking_date", uketsukebi |-> "booking_date",
     tourokubi |-> "booking_date",
     yoyakujikan |-> "start_time", kaishijikan |-> "start_time",
     jikan |-> "start_time",
     shuuryoujikan |-> "end_time",
     koosumei |-> "course_name", puranmei |-> "course_name",
     menyuumei |-> "course_name", koosu |-> "course_name",
     ninzuu |-> "headcount", meisuu |-> "headcount",
     yoyakushasuu |-> "headcount",
     keiro |-> "channel", baitai |-> "channel", ryuunyuumoto |-> "channel",
     yoyakusuteetasu |-> "status", suteetasu |-> "status", joutai |-> "status",
     yoyakubangou |-> "reservation_id", ID |-> "reservation_id",
     bikou |-> "note", memo |-> "note"]

\* str.lower() on the labels of the model that have an upper-case letter
LowerCased == [Reserve_Date |-> "reserve_date", Status |-> "status"]
Lower(original_key) ==
    IF original_key \in DOMAIN LowerCased THEN LowerCased[original_key]
    ELSE original_key

\* self.column_mapping.get(original_key, original_key.lower())
NormalizedKey(original_key) ==
    IF original_key \in DOMAIN column_mapping THEN column_mapping[original_key]
    ELSE Lower(original_key)

\* the keys of mapped_row the transformer reads
MappedFields ==
    {"store_name", "reserve_date", "booking_date", "start_time", "end_time",
     "course_name", "headcount", "channel", "status", "reservation_id"}

\* mapped_row.get(field) after the mapping loop: a later column overwrites an
\* earlier one with the same normalized key
MappedGet(row, field) ==
    LET hits == {i \in 1..Len(row) : NormalizedKey(row[i].key) = field} IN
    IF hits = {} THEN NoneCell
    ELSE row[CHOOSE i \in hits : \A j \in hits : j <= i].value

MapRow(row) == [field \in MappedFields |-> MappedGet(row, field)]

\* '|'.join(texts), ', '.join(texts)
RECURSIVE Join(_, _)
Join(texts, sep) ==
    IF texts = <<>> THEN <<>>
    ELSE IF Len(texts) = 1 THEN texts[1]
    ELSE texts[1] \o sep \o Join(Tail(texts), sep)

IsNotNone(v) == v.k # "none"

\* `str(headcount or '')` for headcount = self._normalize_integer(...): a str
\* in every case, empty for None and for 0
StrOrEmpty(headcount) ==
    IF headcount.k = "int" /\ headcount.n # 0 THEN StrV(StrOfInt(headcount.n))
    ELSE StrV(<<>>)

\* '|'.join([c for c in components if c is not None])
JoinComponents(components) ==
    Join([i \in 1..Len(SelectSeq(components, IsNotNone)) |->
            SelectSeq(components, IsNotNone)[i].t], <<"|">>)

KeyWithRun(row, store_id) == store_id \o <<"|", RunIdOf(n_run)>>
\* _generate_record_key(row, store_id), row being mapped_row
_generate_record_key(row, store_id) ==
    IF Truthy(row.reservation_id)
    THEN store_id \o <<"|">> \o PyStr(row.reservation_id)
    ELSE JoinComponents(<<StrV(store_id),
                          _normalize_date(row.reserve_date),
                          _normalize_time(row.start_time),
                          _normalize_string(row.course_name),
                          StrOrEmpty(_normalize_integer(row.headcount)),
                          _normalize_string(row.channel)>>)

\* the keys of a normalized record, in the order sort_keys=True gives them
RecordFields ==
    <<"booking_date", "channel", "course_name", "end_time", "headcount",
      "ingestion_ts", "record_hash", "record_key", "reserve_date", "run_id",
      "start_time", "status", "store_id", "store_name", "vendor">>

\* json.dumps of a str: quoted, with quote and backslash escaped
RECURSIVE JsonEscape(_)
JsonEscape(t) ==
    IF t = <<>> THEN <<>>
    ELSE (IF Head(t) \in {"\"", "\\"} THEN <<"\\", Head(t)>> ELSE <<Head(t)>>)
             \o JsonEscape(Tail(t))

\* json.dumps of one value
JsonValue(v) ==
    CASE v.k = "none" -> <<"n", "u", "l", "l">>
      [] v.k = "int" -> StrOfInt(v.n)
      [] OTHER -> <<"\"">> \o JsonEscape(v.t) \o <<"\"">>

\* json.dumps(hash_data, sort_keys=True, ensure_ascii=False)
JsonDumps(record, keys) ==
    <<"{">> \o Join([i \in 1..Len(keys) |->
                       <<"\"", keys[i], "\"", ":", " ">> \o JsonValue(record[keys[i]])],
                    <<",", " ">>)
            \o <<"}">>

\* hashlib.md5(...).hexdigest(), taken as collision-free: the digest stands
\* for the text it was computed from
md5_hexdigest(t) == <<"md5(">> \o t \o <<")">>

ExcludeAlsoStatus == {"ingestion_ts", "run_id", "record_hash", "status"}
ExcludeOnlyDerived == {"ingestion_ts", "record_hash"}
ExcludeNoRunStamp == {"record_hash"}
exclude_fields == {"ingestion_ts", "run_id", "record_hash"}

IsHashed(k) == k \notin exclude_fields

\* _calculate_record_hash(record)
_calculate_record_hash(record) ==
    md5_hexdigest(JsonDumps(record, SelectSeq(RecordFields, IsHashed)))

\* the fields _normalize_row evaluates after the reserve_date check; the row's
\* store_name only when the store has no name (`or` short-circuits)
FieldsRead(store) ==
    (MappedFields \ {"store_name"})
        \cup (IF Truthy(store.store_name) THEN {} ELSE {"store_name"})

\* normalized['record_hash'] = self._calculate_record_hash(normalized)
WithRecordHash(normalized) ==
    [normalized EXCEPT !.record_hash = StrV(_calculate_record_hash(normalized))]

\* mutant: the store name of the row comes first
RowNameFirst(store, mapped_row) ==
    IF _normalize_string(mapped_row.store_name) # NoneV
    THEN _normalize_string(mapped_row.store_name)
    ELSE StrV(PyStr(store.store_name))

\* store.get('store_name') or self._normalize_string(mapped_row.get('store_name'))
StoreNameOf(store, mapped_row) ==
    IF Truthy(store.store_name)
    THEN StrV(PyStr(store.store_name))
    ELSE _normalize_string(mapped_row.store_name)

\* the dict built by _normalize_row, record_hash included
NormalizedRecord(mapped_row, store, a_run_id, ingestion_ts) ==
    WithRecordHash(
        [store_id |-> StrV(store.store_id),
         store_name |-> StoreNameOf(store, mapped_row),
         reserve_date |-> _normalize_date(mapped_row.reserve_date),
         booking_date |-> _normalize_date(mapped_row.booking_date),
         start_time |-> _normalize_time(mapped_row.start_time),
         end_time |-> _normalize_time(mapped_row.end_time),
         course_name |-> _normalize_string(mapped_row.course_name),
         headcount |-> _normalize_integer(mapped_row.headcount),
         channel |-> _normalize_string(mapped_row.channel),
         status |-> _normalize_string(mapped_row.status),
         vendor |-> StrV(<<"restaurant_board">>),
         ingestion_ts |-> StrV(<<ingestion_ts>>),
         run_id |-> StrV(<<a_run_id>>),
         record_key |-> StrV(_generate_record_key(mapped_row, store.store_id)),
         record_hash |-> NoneV])

\* _normalize_row after the mapping loop
NormalizeMapped(mapped_row, store, a_run_id, ingestion_ts) ==
    IF RaisesOn(mapped_row.reserve_date) THEN [outcome |-> "raise", out |-> <<>>]
    ELSE IF ~Truthy(mapped_row.reserve_date) THEN [outcome |-> "none", out |-> <<>>]
    ELSE IF \E field \in FieldsRead(store) : RaisesOn(mapped_row[field])
    THEN [outcome |-> "raise", out |-> <<>>]
    ELSE [outcome |-> "record",
          out |-> <<NormalizedRecord(mapped_row, store, a_run_id, ingestion_ts)>>]

\* _normalize_row: "none" is `return None`, "raise" an exception, "record" the
\* dict returned (in out)
_normalize_row(row, store, a_run_id, ingestion_ts) ==
    NormalizeMapped(MapRow(row), store, a_run_id, ingestion_ts)

----------------------------------------------------------------------------
\* DataTransformer._normalize_data, and the merge of the staged records

OnRowErrorAbort(data) == <<>>
\* except Exception: log, continue (normalized_data is left as it is)
OnRowError(data) == data

\* the stored procedure merge_reservations_rb(run_id), as the specification
\* describes it: each staged record in turn is inserted when its record_key
\* is unknown, replaces the durable row when the key is known and the
\* record_hash differs, and is left out when key and hash both match
RECURSIVE MergeRows(_, _)

\* rec against the durable rows hits, which carry its record_key
MergeRecord(m, rec, hits, rest) ==
    IF hits = {}
    THEN MergeRows([m EXCEPT !.main = Append(m.main, rec),
                             !.inserted = m.inserted + 1], rest)
    ELSE IF \E i \in hits : m.main[i].record_hash # rec.record_hash
    THEN MergeRows([m EXCEPT !.main = [i \in 1..Len(m.main) |->
                                         IF i \in hits THEN rec ELSE m.main[i]],
                             !.updated = m.updated + 1], rest)
    ELSE MergeRows([m EXCEPT !.unchanged = m.unchanged + 1], rest)

MergeRows(m, staged) ==
    IF staged = <<>> THEN m
    ELSE MergeRecord(m, Head(staged),
                     {i \in 1..Len(m.main) :
                        m.main[i].record_key = Head(staged).record_key},
                     Tail(staged))

merge_reservations_rb(main, staged) ==
    MergeRows([main |-> main, inserted |-> 0, updated |-> 0, unchanged |-> 0],
              staged)

\* transform_csv up to the loop: normalized_data = [], ingestion_ts taken
NormalizeBegin ==
    /\ n_pc = "idle"
    /\ n_pc' = "rows"
    /\ n_index' = 1
    /\ normalized_data' = <<>>
    /\ n_skipped' = {}
    /\ UNCHANGED <<n_store, n_run, raw_data, first_output, durable, merge_log>>
    /\ UNCHANGED <<retry_vars, orch_vars, win_vars, svc_vars>>

\* the loop body after `normalized = self._normalize_row(...)`
LoopBody(normalized) ==
    /\ normalized_data' =
          CASE normalized.outcome = "record" -> normalized_data \o normalized.out
            [] normalized.outcome = "none" -> normalized_data
            [] OTHER -> OnRowError(normalized_data)
    /\ n_skipped' = IF normalized.outcome = "raise"
                    THEN n_skipped \cup {n_index} ELSE n_skipped

\* one pass of `for index, row in raw_data.iterrows()`
NormalizeRow ==
    /\ n_pc = "rows"
    /\ n_index <= Len(raw_data)
    /\ LoopBody(_normalize_row(raw_data[n_index], n_store,
                               RunIdOf(n_run), IngestionTsOf(n_run)))
    /\ n_index' = n_index + 1
    /\ UNCHANGED <<n_pc, n_store, n_run, raw_data, first_output, durable,
                   merge_log>>
    /\ UNCHANGED <<retry_vars, orch_vars, win_vars, svc_vars>>

\* return normalized_data; the records are written, uploaded and loaded into
\* the stage table
NormalizeReturns ==
    /\ n_pc = "rows"
    /\ n_index > Len(raw_data)
    /\ n_pc' = "staged"
    /\ UNCHANGED <<n_store, n_run, raw_data, n_index, normalized_data,
                   n_skipped, first_output, durable, merge_log>>
    /\ UNCHANGED <<retry_vars, orch_vars, win_vars, svc_vars>>

\* what the procedure leaves: the main table and the counts it reports
Merged(m) ==
    /\ durable' = m.main
    /\ merge_log' = Append(merge_log, [inserted |-> m.inserted,
                                       updated |-> m.updated,
                                       unchanged |-> m.unchanged])

\* merge_stage_to_main(run_id): CALL merge_reservations_rb(run_id)
MergeStage ==
    /\ n_pc = "staged"
    /\ Merged(merge_reservations_rb(durable, normalized_data))
    /\ n_pc' = "merged"
    /\ UNCHANGED <<n_store, n_run, raw_data, n_index, normalized_data,
                   n_skipped, first_output>>
    /\ UNCHANGED <<retry_vars, orch_vars, win_vars, svc_vars>>

\* the next run reads the same source rows for the same store
SecondRun ==
    /\ n_pc = "merged"
    /\ n_run = 1
    /\ n_run' = 2
    /\ first_output' = normalized_data
    /\ n_pc' = "idle"
    /\ UNCHANGED <<n_store, raw_data, n_index, normalized_data, n_skipped,
                   durable, merge_log>>
    /\ UNCHANGED <<retry_vars, orch_vars, win_vars, svc_vars>>

----------------------------------------------------------------------------
\* StoreMasterService.calculate_date_range, called on its own

NoRange == [raised |-> FALSE, from_date |-> NoDate, to_date |-> NoDate]

CalculateDateRange ==
    /\ w_pc = "idle"
    /\ LET date_range == calculate_date_range(w_store) IN
         /\ w_range' = date_range
         /\ w_pc' = IF date_range.raised THEN "raised" ELSE "returned"
    /\ UNCHANGED w_store
    /\ UNCHANGED <<retry_vars, orch_vars, norm_vars, svc_vars>>

----------------------------------------------------------------------------
\* Source rows and stores of the model

\* 予約日 2024/01/15, 時間 19:00, コース A, 人数 4名, 経路 w, ステータス ok,
\* 店舗名 S, 受付日 2024-01-10, 終了時間 21:00
BaseRow ==
    <<[key |-> "yoyakubi",
       value |-> StrCell(<<"2", "0", "2", "4", "/", "0", "1", "/", "1", "5">>)],
      [key |-> "jikan", value |-> StrCell(<<"1", "9", ":", "0", "0">>)],
      [key |-> "koosu", value |-> StrCell(<<"A">>)],
      [key |-> "ninzuu", value |-> StrCell(<<"4", "<mei>">>)],
      [key |-> "keiro", value |-> StrCell(<<"w">>)],
      [key |-> "suteetasu", value |-> StrCell(<<"o", "k">>)],
      [key |-> "tenpomei", value |-> StrCell(<<"S">>)],
      [key |-> "uketsukebi",
       value |-> StrCell(<<"2", "0", "2", "4", "-", "0", "1", "-", "1", "0">>)],
      [key |-> "shuuryoujikan", value |-> StrCell(<<"2", "1", ":", "0", "0">>)]>>

HasKey(row, key) == \E i \in 1..Len(row) : row[i].key = key
IsNotKey(key, entry) == entry.key # key

\* the row without the column, and the row with the column set to a cell
Without(row, key) ==
    LET Keep(entry) == IsNotKey(key, entry) IN SelectSeq(row, Keep)
WithCell(row, key, cell) ==
    IF HasKey(row, key)
    THEN [i \in 1..Len(row) |->
            IF row[i].key = key THEN [key |-> key, value |-> cell] ELSE row[i]]
    ELSE Append(row, [key |-> key, value |-> cell])

\* blank cells: empty CSV cell, empty str, whitespace-only str
BlankCells == {NaNCell, StrCell(<<>>), StrCell(<<" ">>)}

\* other values a column can hold
OtherCells(key) ==
    CASE key = "yoyakubi" ->
             {StrCell(<<"2", "0", "2", "4", "-", "0", "1", "-", "1", "6">>),
              StrCell(<<"a", "b", "c">>), StrCell(<<" ", "a", "b", "c">>)}
      [] key = "jikan" -> {StrCell(<<"A">>)}
      [] key = "koosu" -> {StrCell(<<"B">>)}
      [] key = "ninzuu" -> {StrCell(<<"0">>), StrCell(<<"<mei>">>)}
      [] key = "keiro" -> {StrCell(<<"t">>)}
      [] key = "suteetasu" -> {StrCell(<<"n", "g">>)}
      [] key = "yoyakubangou" -> {StrCell(<<"R", "1">>), StrCell(<<" ", "R", "1">>)}
      [] OTHER -> {}

VariedKeys ==
    {"yoyakubi", "jikan", "koosu", "ninzuu", "keiro", "suteetasu", "tenpomei",
     "uketsukebi", "shuuryoujikan", "yoyakubangou"}

\* the rows one change away from a row
Variants(row) ==
    {row} \cup {Without(row, key) : key \in VariedKeys}
          \cup UNION {{WithCell(row, key, cell) :
                          cell \in BlankCells \cup OtherCells(key)} :
                      key \in VariedKeys}

\* rows at most two changes away from BaseRow
SourceRows == UNION {Variants(row) : row \in Variants(BaseRow)}

\* rows with two columns that column_mapping sends to reserve_date, the
\* second alias before or after the first, each cell blank or filled
AliasCells ==
    BlankCells \cup {StrCell(<<"2", "0", "2", "4", "-", "0", "1", "-", "1", "6">>)}
AliasColumn(cell) == [key |-> "raitenbi", value |-> cell]
AliasRows ==
    UNION {{Append(WithCell(BaseRow, "yoyakubi", first), AliasColumn(second)),
            <<AliasColumn(second)>> \o WithCell(BaseRow, "yoyakubi", first)} :
           <<first, second>> \in
               (BlankCells \cup {BaseRow[1].value}) \X AliasCells}

\* the rows of the files of SpecNorm: kept, rejected, raising, same key with
\* other content, other key, the same text in start time or in course, a
\* course holding the separator
FileRows ==
    {BaseRow,
     WithCell(BaseRow, "yoyakubi", NaNCell),
     Without(BaseRow, "yoyakubi"),
     WithCell(BaseRow, "koosu", BadCell),
     WithCell(BaseRow, "suteetasu", StrCell(<<"n", "g">>)),
     WithCell(BaseRow, "yoyakubi",
              StrCell(<<"2", "0", "2", "4", "-", "0", "1", "-", "1", "6">>)),
     Without(WithCell(BaseRow, "jikan", StrCell(<<"A">>)), "koosu"),
     Without(BaseRow, "jikan"),
     Without(WithCell(BaseRow, "koosu",
                      StrCell(<<"1", "9", ":", "0", "0", ":", "0", "0", "|", "A">>)),
             "jikan")}

MaxInputRows == 2
Files == UNION {[1..n -> FileRows] : n \in 0..MaxInputRows}

\* a store without a name, a store with one, and a store whose name is the
\* empty str (what _normalize_store_data makes of a whitespace-only cell)
ModelStores ==
    {[store_id |-> <<"S", "1">>, store_name |-> NoneCell],
     [store_id |-> <<"S", "2">>, store_name |-> StrCell(<<"N">>)],
     [store_id |-> <<"S", "3">>, store_name |-> StrCell(<<>>)]}

MaxDaysBack == 3
MaxExplicitDate == 3
WindowStoreConfigs ==
    {StoreConfig(d, f, t) : d \in 0..MaxDaysBack \cup {HugeDaysBack},
                            f \in {NoDate} \cup DateMin..MaxExplicitDate,
                            t \in {NoDate} \cup DateMin..MaxExplicitDate}

----------------------------------------------------------------------------
\* StoreMasterService.get_active_stores.  A data row of the Stores sheet is
\* the dict row.to_dict(): a cell per column (the note column is carried
\* along and read by nothing; it is left out).

SheetRow(active, store_id, rb_username, rb_password, days_back) ==
    [active |-> active, store_id |-> store_id, store_name |-> NoneCell,
     rb_username |-> rb_username, rb_password |-> rb_password,
     days_back |-> days_back, from_date |-> NoneCell, to_date |-> NoneCell]

\* str.lower() on the letters of the active column
UpperToLower == [T |-> "t", R |-> "r", U |-> "u", E |-> "e",
                 F |-> "f", A |-> "a", L |-> "l", S |-> "s"]
LowerChar(c) == IF c \in DOMAIN UpperToLower THEN UpperToLower[c] ELSE c
LowerText(t) == [i \in 1..Len(t) |-> LowerChar(t[i])]

\* df['active'].astype(str).str.lower() == 'true'
IsActive(row) == LowerText(PyStr(row.active)) = <<"t", "r", "u", "e">>

\* int(x) for a str: surrounding whitespace and one sign are accepted, the
\* rest has to be digits (ok is FALSE where it raises ValueError); int(None)
\* raises TypeError
SignOf(t) == IF t # <<>> /\ Head(t) = "-" THEN 0 - 1 ELSE 1
Unsigned(t) == IF t # <<>> /\ Head(t) \in {"-", "+"} THEN Tail(t) ELSE t
AllDigits(t) == t # <<>> /\ \A i \in 1..Len(t) : IsDigit(t[i])
IntOfText(t) ==
    IF AllDigits(Unsigned(t))
    THEN [ok |-> TRUE, n |-> SignOf(t) * IntOf(Unsigned(t))]
    ELSE [ok |-> FALSE, n |-> 0]
PyInt(value) ==
    IF value.k = "str" THEN IntOfText(Strip(value.t)) ELSE [ok |-> FALSE, n |-> 0]

\* str(x).strip() if x else None
StripOrNone(value) == IF Truthy(value) THEN StrV(Strip(PyStr(value))) ELSE NoneV

\* required_fields = ['store_id', 'rb_username', 'rb_password']
required_fields == <<"store_id", "rb_username", "rb_password">>

\* the normalized dict
NormalizedStore(store_data, days_back) ==
    [store_id |-> Strip(PyStr(store_data.store_id)),
     store_name |-> StripOrNone(store_data.store_name),
     rb_username |-> Strip(PyStr(store_data.rb_username)),
     rb_password |-> Strip(PyStr(store_data.rb_password)),
     days_back |-> days_back,
     from_date |-> StripOrNone(store_data.from_date),
     to_date |-> StripOrNone(store_data.to_date),
     active |-> TRUE]

\* if not normalized[field]: raise ValueError, for a required field
LacksRequired(normalized) ==
    \E i \in 1..Len(required_fields) : normalized[required_fields[i]] = <<>>

\* raise ValueError(...) / return normalized
CheckedStore(normalized) ==
    IF LacksRequired(normalized)
    THEN [outcome |-> "raise", out |-> <<>>]
    ELSE [outcome |-> "store", out |-> <<normalized>>]

\* _normalize_store_data(store_data): int() of the days_back cell raises while
\* the dict is built, before any required field is looked at
_normalize_store_data(store_data) ==
    IF PyInt(store_data.days_back).ok
    THEN CheckedStore(NormalizedStore(store_data, PyInt(store_data.days_back).n))
    ELSE [outcome |-> "raise", out |-> <<>>]

RECURSIVE NormalizeStores(_, _)

\* store = self._normalize_store_data(row.to_dict()); stores.append(store):
\* nothing around the call catches, so a raise leaves the loop
AppendStore(normalized, rest, listed) ==
    IF normalized.outcome = "raise"
    THEN [outcome |-> "raise", stores |-> <<>>]
    ELSE NormalizeStores(rest, listed \o normalized.out)

\* for _, row in active_stores.iterrows(): ...
NormalizeStores(rows, listed) ==
    IF rows = <<>> THEN [outcome |-> "stores", stores |-> listed]
    ELSE AppendStore(_normalize_store_data(Head(rows)), Tail(rows), listed)

\* get_active_stores over the data rows: [] when there is none, the list of
\* the normalized active rows, or the exception re-raised by its except
get_active_stores(rows) ==
    IF rows = <<>> THEN [outcome |-> "stores", stores |-> <<>>]
    ELSE NormalizeStores(SelectSeq(rows, IsActive), <<>>)

\* execute_etl_process: stores = await store_svc.get_active_stores(); a raise
\* goes to the outer except, an empty list returns
DirectoryRead(listing) ==
    /\ d_stores' = listing.stores
    /\ d_pc' = IF listing.outcome = "raise" THEN "fatal"
               ELSE IF listing.stores = <<>> THEN "empty" ELSE "loop"
    /\ d_idx' = IF listing.outcome = "raise" \/ listing.stores = <<>> THEN d_idx ELSE 1

ReadDirectory ==
    /\ d_pc = "start"
    /\ DirectoryRead(get_active_stores(sheet))
    /\ UNCHANGED <<sheet, d_units>>
    /\ UNCHANGED <<retry_vars, orch_vars, norm_vars, win_vars, http, response,
                   cell_vars, gcs_vars, batch_vars>>

\* one pass of `for store in stores:`: the store's unit runs to its outcome
RunUnit ==
    /\ d_pc = "loop"
    /\ d_idx <= Len(d_stores)
    /\ d_units' = Append(d_units, d_stores[d_idx].store_id)
    /\ d_idx' = d_idx + 1
    /\ UNCHANGED <<sheet, d_pc, d_stores>>
    /\ UNCHANGED <<retry_vars, orch_vars, norm_vars, win_vars, http, response,
                   cell_vars, gcs_vars, batch_vars>>

\* the loop is left and the run completes
DirectoryRunEnds ==
    /\ d_pc = "loop"
    /\ d_idx > Len(d_stores)
    /\ d_pc' = "done"
    /\ UNCHANGED <<sheet, d_stores, d_idx, d_units>>
    /\ UNCHANGED <<retry_vars, orch_vars, norm_vars, win_vars, http, response,
                   cell_vars, gcs_vars, batch_vars>>

\* rows of the Stores sheet: two complete active rows, an inactive row with
\* no password, and active rows with a blank store_id, no username, no
\* password, a days_back that is not a number, an empty days_back cell and a
\* negative days_back
TrueText == StrCell(<<"T", "R", "U", "E">>)
FalseText == StrCell(<<"F", "A", "L", "S", "E">>)
Cell1(c) == StrCell(<<c>>)
SheetRows ==
    {SheetRow(TrueText, StrCell(<<"S", "1">>), Cell1("u"), Cell1("p"), Cell1("7")),
     SheetRow(StrCell(<<"t", "r", "u", "e">>), StrCell(<<"S", "2">>), Cell1("u"),
              Cell1("p"), StrCell(<<" ", "3">>)),
     SheetRow(FalseText, StrCell(<<"S", "3">>), Cell1("u"), StrCell(<<>>), Cell1("7")),
     SheetRow(TrueText, Cell1(" "), Cell1("u"), Cell1("p"), Cell1("7")),
     SheetRow(TrueText, StrCell(<<"S", "4">>), StrCell(<<>>), Cell1("p"), Cell1("7")),
     SheetRow(TrueText, StrCell(<<"S", "5">>), Cell1("u"), StrCell(<<>>), Cell1("7")),
     SheetRow(TrueText, StrCell(<<"S", "6">>), Cell1("u"), Cell1("p"), Cell1("x")),
     SheetRow(TrueText, StrCell(<<"S", "7">>), Cell1("u"), Cell1("p"), StrCell(<<>>)),
     SheetRow(TrueText, StrCell(<<"S", "8">>), Cell1("u"), Cell1("p"),
              StrCell(<<"-", "2">>))}

MaxSheetRows == 3
Sheets == UNION {[1..n -> SheetRows] : n \in 0..MaxSheetRows}

----------------------------------------------------------------------------
\* One call of a cell normalizer: _normalize_date or _normalize_integer

\* self._normalize_date(c_in) returns
NormalizeDateCall ==
    /\ c_pc = "called"
    /\ c_fn = "date"
    /\ c_out' = _normalize_date(c_in)
    /\ c_pc' = "returned"
    /\ UNCHANGED <<c_fn, c_in, c_case>>
    /\ UNCHANGED <<retry_vars, orch_vars, norm_vars, win_vars, http, dir_vars,
                   response, gcs_vars, batch_vars>>

\* self._normalize_integer(c_in) returns
NormalizeIntegerCall ==
    /\ c_pc = "called"
    /\ c_fn = "integer"
    /\ c_out' = _normalize_integer(c_in)
    /\ c_pc' = "returned"
    /\ UNCHANGED <<c_fn, c_in, c_case>>
    /\ UNCHANGED <<retry_vars, orch_vars, norm_vars, win_vars, http, dir_vars,
                   response, gcs_vars, batch_vars>>

\* date cells: a calendar date written out in one of the first six patterns
\* of date_formats, numbers zero-padded to four and two digits
SampleYears == {999, 2023, 2024}
CalendarDates ==
    {[y |-> y, m |-> m, d |-> d] : y \in SampleYears, m \in 1..12, d \in 1..31}
ValidDates == {date \in CalendarDates : date.d <= DaysInMonth(date.y, date.m)}

WrittenPatterns == 1..6

WriteItem(it, date) ==
    CASE it = "%Y" -> ZeroPad(StrOfInt(date.y), 4)
      [] it = "%m" -> ZeroPad(StrOfInt(date.m), 2)
      [] it = "%d" -> ZeroPad(StrOfInt(date.d), 2)
      [] OTHER -> <<it>>

RECURSIVE WriteDate(_, _)
WriteDate(fmt, date) ==
    IF fmt = <<>> THEN <<>>
    ELSE WriteItem(Head(fmt), date) \o WriteDate(Tail(fmt), date)

NoCase == [pattern |-> 0, date |-> [y |-> 0, m |-> 0, d |-> 0]]
DateCases == {[pattern |-> i, date |-> date] : i \in WrittenPatterns, date \in ValidDates}
DateCellOf(case) == StrCell(WriteDate(date_formats[case.pattern], case.date))

\* headcount cells: every text of up to MaxCellLen characters over digits, a
\* sign, a point, a blank, the counter word and the superscript two
MaxCellLen == 3
CellChars == {"0", "4", "7", "-", ".", " ", "<mei>", "<sup2>"}
IntegerCells == {StrCell(t) : t \in UNION {[1..n -> CellChars] : n \in 0..MaxCellLen}}

\* the headcount cells of a numeric column
MaxCellNumber == 12
NumericCells == {IntCell(n) : n \in 0..MaxCellNumber}
                    \cup {FloatCell(n) : n \in 0..MaxCellNumber}

----------------------------------------------------------------------------
\* GCSService._generate_object_name.  A path is a text whose characters
\* include the separator "/"; the other segments are written as one
\* character each.

\* settings.gcs_path_prefix, settings.manual_path_prefix
gcs_path_prefix == <<"landing", "/", "restaurant_board">>
manual_path_prefix == <<"manual", "/", "restaurant_board">>

RECURSIVE basename(_)
\* os.path.basename: what follows the last separator
basename(t) ==
    IF t = <<>> \/ t[Len(t)] = "/" THEN <<>>
    ELSE Append(basename(SubSeq(t, 1, Len(t) - 1)), t[Len(t)])

\* now.strftime('%Y'), ('%m'), ('%d')
YearOf(now) == StrOfInt(now.y)
MonthOf(now) == ZeroPad(StrOfInt(now.m), 2)
DayOf(now) == ZeroPad(StrOfInt(now.d), 2)

\* f"{prefix}/{year}/{month}/{day}"
DatedPrefix(prefix, now) ==
    prefix \o <<"/">> \o YearOf(now) \o <<"/">> \o MonthOf(now)
        \o <<"/">> \o DayOf(now)

\* f"run_{run_id}"
RunDir(a_run_id) == <<"run_">> \o PyStr(a_run_id)

\* mutant: the file is named after the store and the day only
StoreFilePlain(store_id, now) ==
    PyStr(store_id) \o <<"_">> \o YearOf(now) \o MonthOf(now) \o DayOf(now)
        \o <<".csv">>

\* f"rb_{store_id}_{now.strftime('%Y%m%d')}.csv"
StoreFile(store_id, now) ==
    <<"rb_">> \o PyStr(store_id) \o <<"_">> \o YearOf(now) \o MonthOf(now)
        \o DayOf(now) \o <<".csv">>

\* the automated branch: named after the store when store_id and run_id are
\* both given, after the local file otherwise
AutomatedName(local_file_path, options, now) ==
    DatedPrefix(gcs_path_prefix, now) \o <<"/">> \o RunDir(options.run_id)
        \o <<"/">>
        \o (IF Truthy(options.store_id) /\ Truthy(options.run_id)
            THEN StoreFile(options.store_id, now)
            ELSE basename(local_file_path))

\* _generate_object_name(local_file_path, options), datetime.now() being now
_generate_object_name(local_file_path, options, now) ==
    IF Truthy(options.custom_path) THEN PyStr(options.custom_path)
    ELSE IF options.is_manual
         THEN DatedPrefix(manual_path_prefix, now) \o <<"/">>
                  \o basename(local_file_path)
         ELSE AutomatedName(local_file_path, options, now)

\* object_name = self._generate_object_name(local_file_path, options)
GenerateObjectName ==
    /\ g_pc = "called"
    /\ g_name' = _generate_object_name(g_path, g_options, g_now)
    /\ g_pc' = "returned"
    /\ UNCHANGED <<g_now, g_path, g_options>>
    /\ UNCHANGED <<retry_vars, orch_vars, norm_vars, win_vars, http, dir_vars,
                   response, cell_vars, batch_vars>>

\* the calls: with and without store_id, run_id and custom_path, manual or
\* not, for three local paths on three days
UploadOptions ==
    {[store_id |-> sid, run_id |-> rid, is_manual |-> man, custom_path |-> cp] :
        sid \in {NoneCell, StrCell(<<>>), StrCell(<<"S", "1">>), StrCell(<<"S", "2">>)},
        rid \in {NoneCell, StrCell(<<"r1">>), StrCell(<<"r2">>)},
        man \in BOOLEAN,
        cp \in {NoneCell, StrCell(<<>>), StrCell(<<"c", "/", "x.csv">>)}}
LocalPaths ==
    {<<"/", "tmp", "/", "a.csv">>, <<"b.csv">>, <<"/", "tmp", "/">>}
UploadDays ==
    {[y |-> 2024, m |-> 1, d |-> 5], [y |-> 2024, m |-> 12, d |-> 31],
     [y |-> 2025, m |-> 11, d |-> 4]}

----------------------------------------------------------------------------
\* ScraperClient.batch_scrape: one retry_scraping task per store, run
\* concurrently by asyncio.gather(*tasks, return_exceptions=True)

\* ScrapingResponse(success, csv_path, error, records_count): csv_path, error
\* and records_count are None unless given (NoCount is the None of a count)
ScrapingResponse(success, error, csv_path, records_count) ==
    [kind |-> "response", success |-> success, error |-> error,
     csv_path |-> csv_path, records_count |-> records_count]

\* the exception a task ended with, as gather hands it over in the task's slot
TaskException(e) ==
    [kind |-> "exception", success |-> FALSE, error |-> e,
     csv_path |-> None, records_count |-> NoCount]

NoTaskResult ==
    [kind |-> "none", success |-> FALSE, error |-> None,
     csv_path |-> None, records_count |-> NoCount]

\* what one await of scrape_reservation_data ends in inside a task: a
\* response, or an exception the loop's except catches
AttemptReturns(scraping_response) ==
    [kind |-> IF scraping_response.success THEN "ok" ELSE "fail",
     error |-> scraping_response.error, response |-> scraping_response]
AttemptRaises(e) == [kind |-> "raise", error |-> e, response |-> NoTaskResult]

BatchOutcomes ==
    {AttemptReturns(ScrapingResponse(TRUE, None, <<"csv">>, n)) : n \in {NoCount, 0, 2}}
        \cup {AttemptReturns(ScrapingResponse(FALSE, <<"e1">>, None, NoCount)),
              AttemptRaises(<<"e2">>)}

\* what the code after the loop (the logging and the construction of the final
\* response, outside the try) ends in: the failure response, or an exception
FinalOutcomes(le) ==
    {ScrapingResponse(FALSE, MaxRetriesError(le), None, NoCount),
     TaskException(<<"x">>)}

\* a coroutine retry_scraping(store, from_date, to_date, run_id): max_retries
\* has its default
NewTask ==
    [pc |-> "created", attempt |-> 0, last_error |-> None, result |-> NoTaskResult]
RunningTask(pc, a, le) ==
    [pc |-> pc, attempt |-> a, last_error |-> le, result |-> NoTaskResult]
FinishedTask(result) ==
    [pc |-> "done", attempt |-> 0, last_error |-> None, result |-> result]

\* task i ends with result
TaskEnds(i, result) ==
    /\ b_tasks' = [b_tasks EXCEPT ![i] = FinishedTask(result)]
    /\ b_order' = Append(b_order, i)

\* task i goes on, not finished
TaskGoesOn(i, pc, a, le) ==
    /\ b_tasks' = [b_tasks EXCEPT ![i] = RunningTask(pc, a, le)]
    /\ b_order' = b_order

\* top of the for loop of task i with loop value a: the next attempt, or the
\* code after the loop
TaskLoopHead(i, a, le) ==
    IF InRange(a, DefaultMaxRetries)
    THEN TaskGoesOn(i, "scraping", a, le)
    ELSE \E result \in FinalOutcomes(le) : TaskEnds(i, result)

\* the attempt of task i ended in o
TaskAttemptEnded(i, o, le) ==
    IF o.kind = "ok" THEN TaskEnds(i, o.response)
    ELSE IF AttemptsRemain(b_tasks[i].attempt, DefaultMaxRetries)
    THEN TaskGoesOn(i, "sleeping", b_tasks[i].attempt, le)
    ELSE TaskLoopHead(i, b_tasks[i].attempt + 1, le)

\* mutant: the results in the order in which the tasks finished
GatheredByCompletion(tasks, order) == [k \in 1..Len(order) |-> tasks[order[k]].result]

\* scraping_results = await asyncio.gather(*tasks, return_exceptions=True):
\* the results in the order of the tasks passed in
GatheredResults(tasks, order) == [i \in 1..Len(tasks) |-> tasks[i].result]

\* the dict appended for slot i: isinstance(result, Exception) or not;
\* `result.records_count or 0`
BatchEntry(store_id, result) ==
    IF result.kind = "exception"
    THEN <<[store_id |-> store_id, success |-> FALSE, error |-> result.error,
            csv_path |-> None, records_count |-> 0]>>
    ELSE <<[store_id |-> store_id, success |-> result.success,
            error |-> result.error, csv_path |-> result.csv_path,
            records_count |-> IF result.records_count = NoCount THEN 0
                              ELSE result.records_count]>>

\* for i, result in enumerate(scraping_results): results.append({...})
RECURSIVE BatchResults(_, _, _)
BatchResults(batch, scraping_results, i) ==
    IF i > Len(scraping_results) THEN <<>>
    ELSE BatchEntry(batch[i], scraping_results[i])
             \o BatchResults(batch, scraping_results, i + 1)

\* batch_scrape up to its await: a coroutine per store, handed to gather
BatchCall ==
    /\ b_pc = "called"
    /\ b_tasks' = [i \in 1..Len(b_stores) |-> NewTask]
    /\ b_pc' = "gathering"
    /\ UNCHANGED <<b_stores, b_order, b_results>>
    /\ UNCHANGED <<retry_vars, orch_vars, norm_vars, win_vars, http, dir_vars,
                   response, cell_vars, gcs_vars>>

\* the event loop starts task i: it runs to its first await
TaskBegins ==
    /\ b_pc = "gathering"
    /\ \E i \in 1..Len(b_tasks) :
          /\ b_tasks[i].pc = "created"
          /\ TaskLoopHead(i, 1, None)
    /\ UNCHANGED <<b_pc, b_stores, b_results>>
    /\ UNCHANGED <<retry_vars, orch_vars, norm_vars, win_vars, http, dir_vars,
                   response, cell_vars, gcs_vars>>

\* await self.scrape_reservation_data(...) completes in task i
TaskScrapeReturns ==
    /\ b_pc = "gathering"
    /\ \E i \in 1..Len(b_tasks) :
          /\ b_tasks[i].pc = "scraping"
          /\ \E o \in BatchOutcomes :
                TaskAttemptEnded(i, o, UpdateLastError(b_tasks[i].last_error, o))
    /\ UNCHANGED <<b_pc, b_stores, b_results>>
    /\ UNCHANGED <<retry_vars, orch_vars, norm_vars, win_vars, http, dir_vars,
                   response, cell_vars, gcs_vars>>

\* await asyncio.sleep(delay / 1000) completes in task i
TaskSleepReturns ==
    /\ b_pc = "gathering"
    /\ \E i \in 1..Len(b_tasks) :
          /\ b_tasks[i].pc = "sleeping"
          /\ TaskLoopHead(i, b_tasks[i].attempt + 1, b_tasks[i].last_error)
    /\ UNCHANGED <<b_pc, b_stores, b_results>>
    /\ UNCHANGED <<retry_vars, orch_vars, norm_vars, win_vars, http, dir_vars,
                   response, cell_vars, gcs_vars>>

\* gather returns once every task is done; the results are put in order and
\* the list is returned
GatherReturns ==
    /\ b_pc = "gathering"
    /\ \A i \in 1..Len(b_tasks) : b_tasks[i].pc = "done"
    /\ b_results' = BatchResults(b_stores, GatheredResults(b_tasks, b_order), 1)
    /\ b_pc' = "returned"
    /\ UNCHANGED <<b_stores, b_tasks, b_order>>
    /\ UNCHANGED <<retry_vars, orch_vars, norm_vars, win_vars, http, dir_vars,
                   response, cell_vars, gcs_vars>>

\* the lists of stores passed to batch_scrape; a store may be listed twice
MaxBatch == 2
BatchStoreIds == {<<"S", "1">>, <<"S", "2">>}
BatchInputs == UNION {[1..n -> BatchStoreIds] : n \in 0..MaxBatch}

----------------------------------------------------------------------------
\* Initial states

RetryIdle ==
    /\ attempt = 0
    /\ last_error = None
    /\ calls = 0
    /\ sleeps = <<>>
    /\ r_pc = "idle"
    /\ r_result = NoResult

OrchStart ==
    /\ o_pc = "start"
    /\ stores = <<>>
    /\ idx = 0
    /\ unit = <<>>
    /\ results = <<>>
    /\ successful_stores = 0
    /\ failed_stores = 0
    /\ total_records = 0
    /\ scrape_calls = <<>>
    /\ transform_calls = <<>>
    /\ upload_calls = <<>>
    /\ load_calls = <<>>
    /\ merge_calls = <<>>
    /\ summary = <<>>

\* nothing is being normalized or merged
NormStart ==
    /\ n_pc = "idle"
    /\ n_run = 1
    /\ n_index = 0
    /\ normalized_data = <<>>
    /\ n_skipped = {}
    /\ first_output = <<>>
    /\ durable = <<>>
    /\ merge_log = <<>>

NormIdle ==
    /\ raw_data = <<>>
    /\ n_store = [store_id |-> <<"S", "1">>, store_name |-> NoneCell]
    /\ NormStart

WinIdle ==
    /\ w_pc = "idle"
    /\ w_store = StoreConfig(0, NoDate, NoDate)
    /\ w_range = NoRange

\* no scraper request is scripted
FetchIdle == http = <<>>

\* no store directory is being read
DirIdle ==
    /\ sheet = <<>>
    /\ d_pc = "idle"
    /\ d_stores = <<>>
    /\ d_idx = 0
    /\ d_units = <<>>

\* the service state that one call of retry_scraping leaves alone
\* no cell normalizer is being called
CellIdle ==
    /\ c_pc = "idle"
    /\ c_fn = "date"
    /\ c_in = NoneCell
    /\ c_case = NoCase
    /\ c_out = NoneV

\* no object name is being generated
GcsIdle ==
    /\ g_pc = "idle"
    /\ g_now = [y |-> 0, m |-> 0, d |-> 0]
    /\ g_path = <<>>
    /\ g_options = [store_id |-> NoneCell, run_id |-> NoneCell,
                    is_manual |-> FALSE, custom_path |-> NoneCell]
    /\ g_name = <<>>

\* no batch_scrape call is going on
BatchIdle ==
    /\ b_pc = "idle"
    /\ b_stores = <<>>
    /\ b_tasks = <<>>
    /\ b_order = <<>>
    /\ b_results = <<>>

RestIdle ==
    /\ BatchIdle
    /\ DirIdle
    /\ response = NoResponse
    /\ CellIdle
    /\ GcsIdle

SvcIdle ==
    /\ FetchIdle
    /\ RestIdle

RunIds == {"r1", "r2"}

\* one call of retry_scraping: any max_retries, any stub
InitRetry ==
    /\ max_retries \in (0 - 1)..MaxRetriesBound
    /\ script \in Scripts(AllOutcomes)
    /\ RetryIdle
    /\ run_id = "r1"
    /\ OrchStart
    /\ NormIdle
    /\ WinIdle
    /\ SvcIdle

NextRetry == RetryStart \/ ScrapeReturns \/ SleepReturns

SpecRetry == InitRetry /\ [][NextRetry]_vars

\* one call of retry_scraping, the scrape stub being scrape_reservation_data
\* over any sequence of POST results
InitFetch ==
    /\ max_retries \in (0 - 1)..MaxRetriesBound
    /\ http \in [1..ScriptLen -> HttpEvents]
    /\ script = ScriptOf(http)
    /\ RetryIdle
    /\ run_id = "r1"
    /\ OrchStart
    /\ NormIdle
    /\ WinIdle
    /\ RestIdle

SpecFetch == InitFetch /\ [][NextRetry]_vars

\* one run of execute_etl_process, scheduled by run_etl, which has returned
\* its response to the caller
Init ==
    /\ max_retries = 0
    /\ script = ScriptFailingFirst(0, <<"e1">>)
    /\ RetryIdle
    /\ run_id \in RunIds
    /\ OrchStart
    /\ NormIdle
    /\ WinIdle
    /\ FetchIdle
    /\ DirIdle
    /\ response = run_etl(run_id)
    /\ CellIdle
    /\ GcsIdle
    /\ BatchIdle

Next ==
    \/ GetActiveStores
    \/ BeginStore
    \/ ScrapeReturns
    \/ SleepReturns
    \/ FetchReturns
    \/ TransformReturns
    \/ UploadReturns
    \/ LoadReturns
    \/ AfterLoop
    \/ MergeReturns

Spec == Init /\ [][Next]_vars

\* no retry call and no run in progress
OthersIdle ==
    /\ max_retries = 0
    /\ script = ScriptFailingFirst(0, <<"e1">>)
    /\ RetryIdle
    /\ run_id = "r1"
    /\ OrchStart

NextNorm ==
    \/ NormalizeBegin
    \/ NormalizeRow
    \/ NormalizeReturns
    \/ MergeStage
    \/ SecondRun

\* a file of one source row, transformed and merged in two runs
InitRow ==
    /\ raw_data \in {<<row>> : row \in SourceRows \cup AliasRows}
    /\ n_store \in ModelStores
    /\ NormStart
    /\ OthersIdle
    /\ WinIdle
    /\ SvcIdle

SpecRow == InitRow /\ [][NextNorm]_vars

\* a file of several source rows, transformed and merged in two runs
InitNorm ==
    /\ raw_data \in Files
    /\ n_store \in ModelStores
    /\ NormStart
    /\ OthersIdle
    /\ WinIdle
    /\ SvcIdle

SpecNorm == InitNorm /\ [][NextNorm]_vars

\* one call of calculate_date_range
InitWindow ==
    /\ w_pc = "idle"
    /\ w_store \in WindowStoreConfigs
    /\ w_range = NoRange
    /\ OthersIdle
    /\ NormIdle
    /\ SvcIdle

NextWindow == CalculateDateRange

SpecWindow == InitWindow /\ [][NextWindow]_vars

\* one run reading any Stores sheet
InitDirectory ==
    /\ sheet \in Sheets
    /\ d_pc = "start"
    /\ d_stores = <<>>
    /\ d_idx = 0
    /\ d_units = <<>>
    /\ response = NoResponse
    /\ CellIdle
    /\ GcsIdle
    /\ BatchIdle
    /\ FetchIdle
    /\ OthersIdle
    /\ NormIdle
    /\ WinIdle

\* one call of _normalize_date on a written date, or of _normalize_integer
\* on a text
InitCell ==
    /\ c_pc = "called"
    /\ \/ /\ c_fn = "date"
          /\ c_case \in DateCases
          /\ c_in = DateCellOf(c_case)
       \/ /\ c_fn = "integer"
          /\ c_case = NoCase
          /\ c_in \in IntegerCells \cup NumericCells
    /\ c_out = NoneV
    /\ GcsIdle
    /\ BatchIdle
    /\ DirIdle
    /\ response = NoResponse
    /\ FetchIdle
    /\ OthersIdle
    /\ NormIdle
    /\ WinIdle

NextCell == NormalizeDateCall \/ NormalizeIntegerCall

SpecCell == InitCell /\ [][NextCell]_vars

\* one call of _generate_object_name
InitObject ==
    /\ g_pc = "called"
    /\ g_now \in UploadDays
    /\ g_path \in LocalPaths
    /\ g_options \in UploadOptions
    /\ g_name = <<>>
    /\ BatchIdle
    /\ CellIdle
    /\ DirIdle
    /\ response = NoResponse
    /\ FetchIdle
    /\ OthersIdle
    /\ NormIdle
    /\ WinIdle

NextObject == GenerateObjectName

SpecObject == InitObject /\ [][NextObject]_vars

\* one call of batch_scrape
InitBatch ==
    /\ b_pc = "called"
    /\ b_stores \in BatchInputs
    /\ b_tasks = <<>>
    /\ b_order = <<>>
    /\ b_results = <<>>
    /\ GcsIdle
    /\ CellIdle
    /\ DirIdle
    /\ response = NoResponse
    /\ FetchIdle
    /\ OthersIdle
    /\ NormIdle
    /\ WinIdle

NextBatch ==
    BatchCall \/ TaskBegins \/ TaskScrapeReturns \/ TaskSleepReturns \/ GatherReturns

SpecBatch == InitBatch /\ [][NextBatch]_vars

NextDirectory == ReadDirectory \/ RunUnit \/ DirectoryRunEnds

SpecDirectory == InitDirectory /\ [][NextDirectory]_vars

----------------------------------------------------------------------------
\* Properties of retry_scraping (SpecRetry)

\* the stub fails on its first n invocations
FailsFirst(n) == \A j \in 1..n : script[j].kind # "ok"

\* C1: when the stub fails on its first N invocations and succeeds on
\* invocation N+1, and max_retries >= N+1, the call returns success after
\* exactly N+1 invocations, and never invokes the stub more than N+1 times.
C1_SuccessAfterNFailures ==
    \A N \in 0..(ScriptLen - 1) :
        (FailsFirst(N) /\ script[N + 1].kind = "ok" /\ max_retries >= N + 1)
        => /\ calls <= N + 1
           /\ r_pc = "returned" => (r_result.success /\ calls = N + 1)

\* C1 witness: a call that returned success on its third invocation
C1_Witness ==
    /\ r_pc = "returned"
    /\ r_result.success
    /\ calls = 3
    /\ FailsFirst(2)

\* C2: when every invocation fails and max_retries = R >= 1, the call returns
\* failure after exactly R invocations, and the error it carries is the one of
\* the R-th attempt (behind the fixed "max retries reached" prefix), whatever
\* the earlier attempts reported.
C2_FailureCarriesLastError ==
    (r_pc = "returned" /\ max_retries >= 1 /\ FailsFirst(max_retries))
    => /\ ~r_result.success
       /\ calls = max_retries
       /\ r_result.error = MaxRetriesError(script[max_retries].error)

\* C2 witness: three failed attempts whose errors differ, failure returned
C2_Witness ==
    /\ r_pc = "returned"
    /\ ~r_result.success
    /\ max_retries = 3
    /\ calls = 3
    /\ script[1].error # script[3].error
    /\ script[2].error # script[3].error

----------------------------------------------------------------------------
\* Properties of execute_etl_process (Spec)

StoreIds == 1..NumStores
InProgress == {"Fetching", "Normalizing", "Staging", "Loading"}

\* the for loop over a non-empty store list has been left
LoopExited == NumStores > 0 /\ o_pc \in {"merging", "done", "fatal"}

AnySucceeded == \E s \in StoreIds : unit[s] = "Succeeded"

EntriesOf(s) == {i \in 1..Len(results) : results[i].store_id = s}

\* fetch, normalize, stage upload and load of store s all returned normally
AllStagesSucceeded(s) ==
    \E i \in EntriesOf(s) :
        results[i].success \/ results[i].error = <<"TypeError">>

\* C3 (as claimed): the merge is issued at most once and with the run's
\* run_id, and after the loop it has been issued exactly once if some store's
\* unit ended Succeeded and not at all otherwise.
C3_MergeOnceIffSucceeded ==
    /\ Len(merge_calls) <= 1
    /\ \A i \in 1..Len(merge_calls) : merge_calls[i] = run_id
    /\ LoopExited => Len(merge_calls) = (IF AnySucceeded THEN 1 ELSE 0)

\* C4: whenever the merge has been issued, every store's unit is terminal.
C4_MergeAfterAllUnits ==
    merge_calls # <<>> => \A s \in StoreIds : unit[s] \in Terminal

\* C4 witness: the merge issued after three units, failed and succeeded ones
C4_Witness ==
    /\ merge_calls # <<>>
    /\ NumStores = 3
    /\ unit[1] = "Succeeded"
    /\ unit[2] = "Failed"
    /\ unit[3] = "Succeeded"

\* C5: a store's failure is captured in its own outcome and stops no other
\* store: every store the loop has passed is terminal with exactly one entry in
\* results (a failed one with success false and its error), once the loop is
\* left every store is, and a store's failure never ends the run as fatal.
C5_FailureIsolated ==
    /\ \A s \in StoreIds :
         (s < idx \/ LoopExited)
         => /\ unit[s] \in Terminal
            /\ Cardinality(EntriesOf(s)) = 1
            /\ unit[s] = "Failed"
               => \A i \in EntriesOf(s) :
                     ~results[i].success /\ Len(results[i].error) > 0
    /\ o_pc = "fatal" => (stores = <<>> \/ merge_calls # <<>>)

\* C5 witness: the run completed with stores failing at the date window and
\* at the fetch around a store that succeeded
C5_Witness ==
    /\ o_pc = "done"
    /\ NumStores = 3
    /\ unit[1] = "Failed" /\ results[1].error = <<"OverflowError">>
    /\ unit[2] = "Succeeded"
    /\ unit[3] = "Failed" /\ results[3].error = MaxRetriesError(<<"e1">>)

C7_FinalCounts ==
    LoopExited
    => LET ok == Cardinality({s \in StoreIds : AllStagesSucceeded(s)}) IN
       /\ successful_stores = ok
       /\ failed_stores = NumStores - ok
       /\ successful_stores > 0 => Len(merge_calls) = 1

RunSummaryZero ==
    <<[successful_stores |-> 0, failed_stores |-> 0, total_records |-> 0]>>

NoExternalCall ==
    /\ calls = 0
    /\ r_pc = "idle"
    /\ merge_calls = <<>>
    /\ \A s \in DOMAIN scrape_calls : scrape_calls[s] = 0
    /\ \A s \in DOMAIN transform_calls : transform_calls[s] = 0
    /\ \A s \in DOMAIN upload_calls : upload_calls[s] = 0
    /\ \A s \in DOMAIN load_calls : load_calls[s] = 0

\* C8 (as claimed): a run over an empty store list makes no external call and
\* returns a summary with all counts zero.
C8_EmptyRunZeroSummary ==
    (o_pc # "start" /\ stores = <<>> /\ o_pc # "fatal")
    => (NoExternalCall /\ summary = RunSummaryZero)

\* C8 (amended): a run over an empty store list makes no scrape, stage upload,
\* load or merge call, counts nothing, and returns at once without reporting
\* any summary.
C8_EmptyRunNoCalls ==
    (o_pc # "start" /\ stores = <<>> /\ o_pc # "fatal")
    => /\ o_pc = "empty"
       /\ NoExternalCall
       /\ results = <<>>
       /\ successful_stores = 0 /\ failed_stores = 0 /\ total_records = 0
       /\ summary = <<>>

\* C8 witness: the run returned on an empty store list
C8_Witness == o_pc = "empty" /\ stores = <<>>

ClaimedTransitions ==
    {<<"Start", "Fetching">>, <<"Fetching", "Normalizing">>,
     <<"Normalizing", "Staging">>, <<"Staging", "Loading">>,
     <<"Loading", "Succeeded">>, <<"Fetching", "Failed">>,
     <<"Normalizing", "Failed">>, <<"Staging", "Failed">>,
     <<"Loading", "Failed">>}

UnitStep(allowed) ==
    \A s \in DOMAIN unit :
        /\ unit'[s] # unit[s] => <<unit[s], unit'[s]>> \in allowed
        /\ (unit[s] = "Fetching" /\ unit'[s] = "Normalizing") => r_result.success
        /\ (unit[s] = "Fetching" /\ unit'[s] = "Failed")
           => (~r_result.success /\ calls = DefaultMaxRetries)
        /\ (unit[s] # "Succeeded" /\ unit'[s] = "Succeeded")
           => /\ scrape_calls[s] >= 1
              /\ transform_calls[s] = 1
              /\ upload_calls[s] = 1
              /\ load_calls[s] = 1
        /\ unit[s] \in Terminal
           => /\ unit'[s] = unit[s]
              /\ scrape_calls'[s] = scrape_calls[s]
              /\ transform_calls'[s] = transform_calls[s]
              /\ upload_calls'[s] = upload_calls[s]
              /\ load_calls'[s] = load_calls[s]

C10_StagesAtMostOnce ==
    \A s \in StoreIds :
        /\ transform_calls[s] <= 1
        /\ upload_calls[s] <= 1
        /\ load_calls[s] <= 1
        /\ scrape_calls[s] <= DefaultMaxRetries

\* C10 witness: a store whose fetch took two scrape calls failed at the load,
\* which was called once, and the loop went on
C10_Witness ==
    /\ NumStores >= 2
    /\ unit[1] = "Failed"
    /\ results[1].error = <<"LoadError">>
    /\ scrape_calls[1] = 2
    /\ load_calls[1] = 1
    /\ unit[2] # "Start"

----------------------------------------------------------------------------
\* Properties of the normalization engine (SpecRow: a file of one row)

\* blank, as the specification lists it: column missing, NaN, empty str,
\* whitespace-only str
Blank(cell) == cell.k \in {"none", "nan"} \/ Strip(cell.t) = <<>>

\* _normalize_data has gone through the file's single row
RowDone == n_pc = "staged" /\ Len(raw_data) = 1
\* ... and has emitted its record
RowEmitted == RowDone /\ Len(normalized_data) = 1

ReserveDateCell == MappedGet(raw_data[1], "reserve_date")
ReservationIdCell == MappedGet(raw_data[1], "reservation_id")

\* C11 (as claimed): the row is excluded from the output if and only if its
\* mapped reserve_date cell is blank; a row with a non-blank reserve_date
\* yields exactly one record.
C11_RejectedIffBlank ==
    RowDone => Len(normalized_data) = IF Blank(ReserveDateCell) THEN 0 ELSE 1

\* a date in YYYY-MM-DD form: four, two and two digits, a day of the calendar
IsCanonicalDate(v) ==
    /\ v.k = "str"
    /\ Len(v.t) = 10
    /\ v.t[5] = "-"
    /\ v.t[8] = "-"
    /\ \A i \in {1, 2, 3, 4, 6, 7, 9, 10} : IsDigit(v.t[i])
    /\ IntOf(SubSeq(v.t, 1, 4)) >= 1
    /\ IntOf(SubSeq(v.t, 6, 7)) \in 1..12
    /\ IntOf(SubSeq(v.t, 9, 10)) >= 1
    /\ IntOf(SubSeq(v.t, 9, 10)) <=
           DaysInMonth(IntOf(SubSeq(v.t, 1, 4)), IntOf(SubSeq(v.t, 6, 7)))

\* C12 (as claimed): every record emitted carries a reserve_date that is
\* present and is a date in YYYY-MM-DD form.
C12_ReserveDatePresentParseable ==
    \A i \in 1..Len(normalized_data) :
        IsCanonicalDate(normalized_data[i].reserve_date)

\* the text of a key component taken from the emitted record: absent stays
\* absent, a headcount is written as its decimal string
ComponentOf(v) == IF v.k = "int" THEN StrV(StrOfInt(v.n)) ELSE v

\* the '|'-join of the values that are not absent
JoinPresent(values) ==
    LET present == SelectSeq(values, IsNotNone) IN
    Join([i \in 1..Len(present) |-> present[i].t], <<"|">>)

\* the composite key the claim describes, from the record's own fields
ClaimedCompositeKey(r) ==
    JoinPresent(<<r.store_id, r.reserve_date, r.start_time, r.course_name,
                  ComponentOf(r.headcount), r.channel>>)

\* C14 (as claimed): for a row without a reservation id column, the key is
\* the '|'-join of store_id and exactly the non-absent values among the
\* record's reserve_date, start_time, course_name, headcount (as string) and
\* channel, in that order; an absent component leaves nothing in the join.
C14_CompositeKeyOmitsAbsent ==
    (RowEmitted /\ ReservationIdCell.k = "none") =>
        normalized_data[1].record_key.t = ClaimedCompositeKey(normalized_data[1])

\* no native reservation id supplied: column missing, NaN or empty
Unsupplied(cell) == cell.k \in {"none", "nan"} \/ cell.t = <<>>

\* C15 (as claimed): a non-blank reservation_id gives the key
\* store_id|reservation_id whatever the other fields hold; a row that supplies
\* none (column missing, empty, NaN) gets the composite key, the one the same
\* row gets without the reservation id column.
C15_NativeIdOrComposite ==
    RowEmitted =>
        /\ ~Blank(ReservationIdCell) =>
              normalized_data[1].record_key.t =
                  n_store.store_id \o <<"|">> \o ReservationIdCell.t
        /\ Unsupplied(ReservationIdCell) =>
              normalized_data[1].record_key.t =
                  _generate_record_key(MapRow(Without(raw_data[1], "yoyakubangou")),
                                       n_store.store_id)

\* the second run has gone through the same file
SecondRunDone == n_run = 2 /\ n_pc = "staged"

\* C16: the same row of the same store gets the identical record_key in two
\* runs with different run_id and ingestion_ts.
C16_KeyStableAcrossRuns ==
    SecondRunDone =>
        /\ Len(normalized_data) = Len(first_output)
        /\ \A i \in 1..Len(normalized_data) :
              normalized_data[i].record_key = first_output[i].record_key

\* C16 witness: a composite key with an absent component, computed twice under
\* different run ids and timestamps
C16_Witness ==
    /\ SecondRunDone
    /\ Len(normalized_data) = 1
    /\ Len(first_output) = 1
    /\ normalized_data[1].run_id # first_output[1].run_id
    /\ normalized_data[1].ingestion_ts # first_output[1].ingestion_ts
    /\ ReservationIdCell.k = "none"
    /\ normalized_data[1].start_time = NoneV

\* the fields of a record other than run_id, ingestion_ts and record_hash
ContentFields ==
    {"store_id", "store_name", "reserve_date", "booking_date", "start_time",
     "end_time", "course_name", "headcount", "channel", "status", "vendor",
     "record_key"}

\* C17: two records that agree on every field other than run_id,
\* ingestion_ts and record_hash have the same record_hash.
C17_HashIgnoresRunStamp ==
    SecondRunDone =>
        \A i \in 1..Len(first_output) : \A j \in 1..Len(normalized_data) :
            (\A f \in ContentFields : first_output[i][f] = normalized_data[j][f])
                => first_output[i].record_hash = normalized_data[j].record_hash

\* C17 witness: the records of the two runs agree on the content and differ
\* in run_id and ingestion_ts
C17_Witness ==
    /\ SecondRunDone
    /\ Len(normalized_data) = 1
    /\ Len(first_output) = 1
    /\ \A f \in ContentFields : first_output[1][f] = normalized_data[1][f]
    /\ first_output[1].run_id # normalized_data[1].run_id
    /\ first_output[1].ingestion_ts # normalized_data[1].ingestion_ts

\* the business fields of a record
BusinessFields ==
    {"store_id", "store_name", "reserve_date", "booking_date", "start_time",
     "end_time", "course_name", "headcount", "channel", "status"}

\* values to put in a field instead of the one it holds
OtherValues ==
    {NoneV, StrV(<<"x">>), StrV(<<"n", "u", "l", "l">>), StrV(<<"4">>),
     StrV(<<"x", "\"", ",", " ", "\"", "y">>), IntV(4), IntV(0)}

\* C18: with the digest taken as injective, changing any one business field of
\* an emitted record, the other fields kept, changes the record_hash.
C18_HashSensitiveToBusinessFields ==
    RowEmitted =>
        \A f \in BusinessFields : \A v \in OtherValues :
            v # normalized_data[1][f] =>
                StrV(_calculate_record_hash([normalized_data[1] EXCEPT ![f] = v]))
                    # normalized_data[1].record_hash

\* C18 witness: a record with absent and present business fields was hashed
C18_Witness ==
    /\ RowEmitted
    /\ normalized_data[1].record_hash # NoneV
    /\ normalized_data[1].status = NoneV
    /\ normalized_data[1].headcount = IntV(4)

----------------------------------------------------------------------------
\* Properties of _normalize_data and of the merge (SpecNorm: a file of rows)

\* the records of the rows on which _normalize_row returns a record, in order
RECURSIVE KeptRecords(_, _, _)
KeptRecords(rows, store, run) ==
    IF rows = <<>> THEN <<>>
    ELSE _normalize_row(Head(rows), store, RunIdOf(run), IngestionTsOf(run)).out
             \o KeptRecords(Tail(rows), store, run)

RaisingRows(rows, store) ==
    {i \in 1..Len(rows) :
        _normalize_row(rows[i], store, "r1", "t1").outcome = "raise"}

\* C13: while and after _normalize_data loops, the output holds exactly the
\* records of the rows done so far that neither raised nor were rejected, in
\* order (a raising row is skipped and removes nothing), it is never longer
\* than the number of rows done, and the loop can always go on to its return.
C13_RowFailuresSkipped ==
    n_pc \in {"rows", "staged"} =>
        /\ normalized_data = KeptRecords(SubSeq(raw_data, 1, n_index - 1), n_store, n_run)
        /\ Len(normalized_data) <= n_index - 1
        /\ n_index - 1 <= Len(raw_data)
        /\ n_skipped = RaisingRows(SubSeq(raw_data, 1, n_index - 1), n_store)
        /\ n_pc = "rows" => (n_index <= Len(raw_data) \/ ENABLED NormalizeReturns)

\* C13 witness: the function returned, a row raised after another row's
\* record had been collected, and that record is in the output
C13_Witness ==
    /\ n_pc = "staged"
    /\ Len(raw_data) = 2
    /\ n_skipped = {2}
    /\ Len(normalized_data) = 1

DistinctKeys(records) ==
    \A i, j \in 1..Len(records) :
        i # j => records[i].record_key # records[j].record_key

\* the second run's merge has been done
SecondMergeDone == n_run = 2 /\ n_pc = "merged"

RerunChangesNothing ==
    /\ merge_log[2].inserted = 0
    /\ merge_log[2].updated = 0
    /\ DistinctKeys(durable)

\* C19 (as claimed): after two runs over the same source rows of the same
\* store, the second merge has inserted no row and updated no row, and the
\* main table holds no two rows with the same record_key.
C19_RerunIdempotent == SecondMergeDone => RerunChangesNothing

\* C19 (amended): the same, for source rows whose records have pairwise
\* different record_keys.
C19_RerunIdempotentDistinctKeys ==
    (SecondMergeDone /\ DistinctKeys(first_output)) => RerunChangesNothing

\* C19 witness: two records with different keys went through both merges
C19_Witness ==
    /\ SecondMergeDone
    /\ Len(first_output) = 2
    /\ DistinctKeys(first_output)
    /\ merge_log[1].inserted = 2
    /\ merge_log[2].unchanged = 2

----------------------------------------------------------------------------
\* Properties of calculate_date_range (SpecWindow)

HasExplicitWindow(store) == store.from_date # NoDate /\ store.to_date # NoDate

\* C20: with explicit from_date and to_date the window is exactly those two
\* values; otherwise it is [today - (1 + days_back), today] with the store's
\* own days_back (no window is returned when that day is before date.min).
C20_WindowByConfig ==
    /\ w_pc = "returned" =>
          IF HasExplicitWindow(w_store)
          THEN /\ w_range.from_date = w_store.from_date
               /\ w_range.to_date = w_store.to_date
          ELSE /\ w_range.from_date = Today - (1 + w_store.days_back)
               /\ w_range.to_date = Today
    /\ w_pc = "raised" =>
          /\ ~HasExplicitWindow(w_store)
          /\ Today - (1 + w_store.days_back) < DateMin

\* C20 witness: a default window for a store whose days_back is not zero, one
\* of whose explicit bounds is set and ignored
C20_Witness ==
    /\ w_pc = "returned"
    /\ w_store.days_back = 2
    /\ w_store.from_date # NoDate
    /\ w_store.to_date = NoDate
    /\ w_range.from_date = Today - 3

----------------------------------------------------------------------------
\* Properties of the backoff of retry_scraping (SpecRetry)

\* the delays (ms) of n waits, the first after attempt 1
ExpectedSleeps(n) == [k \in 1..n |-> RetryDelay * 2^(k - 1)]

\* C21: the wait after failed attempt k, when attempts remain, is
\* retry_delay * 2^(k-1); there is one wait between two consecutive attempts
\* and none after the last attempt or after a successful one.
C21_BackoffDelays ==
    /\ sleeps = ExpectedSleeps(Len(sleeps))
    /\ r_pc = "scraping" => Len(sleeps) = calls - 1
    /\ r_pc = "sleeping" => (Len(sleeps) = calls /\ calls < max_retries)
    /\ r_pc = "returned" => Len(sleeps) = (IF calls = 0 THEN 0 ELSE calls - 1)

\* C21 witness: three attempts failed; the call waited 1000 ms then 2000 ms
\* and returned without a third wait
C21_Witness ==
    /\ r_pc = "returned"
    /\ ~r_result.success
    /\ calls = 3
    /\ sleeps = <<RetryDelay, 2 * RetryDelay>>

----------------------------------------------------------------------------
\* Properties of the failure kinds of a fetch attempt (SpecFetch)

\* the POST result is anything but a 200 response whose body says success
IsFailedPost(h) == ~(h.kind = "response" /\ h.status = "200" /\ h.success)

\* what the POST of the attempt in progress ends in
CurrentPost == http[calls]

\* a step taken while an attempt's POST has failed: the attempt is counted
\* once, and the call waits for a further attempt when attempts remain, else
\* returns a failure response
FailedAttemptStep ==
    (r_pc = "scraping" /\ IsFailedPost(CurrentPost))
    => /\ calls' = calls
       /\ calls = attempt
       /\ IF attempt < max_retries
          THEN r_pc' = "sleeping"
          ELSE r_pc' = "returned" /\ ~r_result'.success

\* a step taken while waiting: the next attempt is made
FurtherAttemptStep ==
    r_pc = "sleeping"
    => (r_pc' = "scraping" /\ calls' = calls + 1 /\ attempt' = attempt + 1)

\* C22: a timeout, a non-200 response, a transport exception and a 200
\* response whose body says success=false each count as one failed attempt;
\* retry_scraping turns each into a wait and a further attempt when attempts
\* remain, and into a returned failure response (never an exception) when none
\* remain.
C22_FailureKindsCounted == [][FailedAttemptStep /\ FurtherAttemptStep]_vars

\* C22 witness: three attempts failed in three different ways, one of them a
\* 200 response saying success=false, and the call returned its failure
C22_Witness ==
    /\ r_pc = "returned"
    /\ ~r_result.success
    /\ calls = 3
    /\ \A k \in 1..3 : IsFailedPost(http[k])
    /\ \E k \in 1..3 : http[k].kind = "response" /\ http[k].status = "200"
    /\ \E k \in 1..3 : http[k].kind = "response" /\ http[k].status # "200"
    /\ \E k \in 1..3 : http[k].kind # "response"

----------------------------------------------------------------------------
\* Properties of the store directory (SpecDirectory)

\* an active row with store_id, username and password and an integer days_back
IsCompleteRow(row) ==
    /\ Strip(PyStr(row.store_id)) # <<>>
    /\ Strip(PyStr(row.rb_username)) # <<>>
    /\ Strip(PyStr(row.rb_password)) # <<>>
    /\ PyInt(row.days_back).ok

ActiveRows == SelectSeq(sheet, IsActive)
CompleteActiveRows == SelectSeq(ActiveRows, IsCompleteRow)

DirectoryRunOver == d_pc \in {"done", "empty", "fatal"}

\* the run executed the unit of the store of row r
UnitRan(r) == \E i \in 1..Len(d_units) : d_units[i] = Strip(PyStr(r.store_id))

\* C23 (as claimed): an active row with a missing or invalid required field
\* fails only its own store: when the run is over it has not failed, and it
\* has executed the unit of every complete active row.
C23_BadRowIsolated ==
    DirectoryRunOver
    => /\ d_pc # "fatal"
       /\ \A i \in 1..Len(CompleteActiveRows) : UnitRan(CompleteActiveRows[i])

----------------------------------------------------------------------------
\* Properties of the run-level errors of execute_etl_process (Spec)

\* the run ended in its outer except: get_active_stores or the merge raised
RunFailed == o_pc = "fatal"
MergeFailed == o_pc = "fatal" /\ merge_calls # <<>>

\* C24 (as claimed): when reading the store directory or the merge fails, the
\* caller of the run holds a terminal error: the response it received does not
\* say success and carries the error.
C24_RunErrorSurfaced ==
    RunFailed => (~response.success /\ response.error # None)

\* C25 (as claimed): when the merge fails after some stores succeeded, a final
\* report has been produced and it carries the successes and the record
\* total collected by the loop.
C25_FailedRunReportsSuccesses ==
    MergeFailed
    => /\ summary # <<>>
       /\ \A i \in 1..Len(summary) :
            /\ summary[i].successful_stores = successful_stores
            /\ summary[i].total_records = total_records

----------------------------------------------------------------------------
\* Properties of _normalize_date and _normalize_integer (SpecCell)

\* YYYY-MM-DD of a calendar date
CanonicalDate(date) ==
    ZeroPad(StrOfInt(date.y), 4) \o <<"-">> \o ZeroPad(StrOfInt(date.m), 2)
        \o <<"-">> \o ZeroPad(StrOfInt(date.d), 2)

DateReturned == c_pc = "returned" /\ c_fn = "date"

\* C26 (as claimed): a date written in the canonical pattern or in one of the
\* legacy patterns (YYYY/MM/DD, MM/DD/YYYY, DD/MM/YYYY, the two patterns with
\* calendar words) normalizes to that same date in YYYY-MM-DD form; for the
\* canonical pattern this is the input itself.
C26_WrittenDateKept ==
    DateReturned => c_out = StrV(CanonicalDate(c_case.date))

\* the digits of a text read left to right as one decimal number, every
\* other character passed over
RECURSIVE DigitsValue(_, _)
DigitsValue(t, acc) ==
    IF t = <<>> THEN acc
    ELSE IF IsDigit(Head(t)) THEN DigitsValue(Tail(t), 10 * acc + DigitValue(Head(t)))
    ELSE DigitsValue(Tail(t), acc)

HasDigit(t) == \E i \in 1..Len(t) : IsDigit(t[i])

IntegerReturned == c_pc = "returned" /\ c_fn = "integer"

\* C28 (as claimed): for a text, _normalize_integer returns the integer its
\* digit characters form in order, the other characters removed; a text
\* without a digit gives absent, not zero; the result is never negative.
C28_IntegerFromDigits ==
    IntegerReturned
    => /\ HasDigit(c_in.t) => c_out = IntV(DigitsValue(c_in.t, 0))
       /\ ~HasDigit(c_in.t) => c_out = NoneV
       /\ c_out.k = "int" => c_out.n >= 0

----------------------------------------------------------------------------
\* Properties of the lenient date fallback (SpecRow)

\* the row's reserve_date cell is a text, not blank, that no pattern of
\* date_formats parses
UnparseableDateRow ==
    /\ RowDone
    /\ ReserveDateCell.k = "str"
    /\ Strip(ReserveDateCell.t) # <<>>
    /\ ~FirstParse(Strip(ReserveDateCell.t), date_formats).ok

\* the row was emitted with reserve_date v
EmittedWithDate(v) ==
    /\ RowEmitted
    /\ \A i \in 1..Len(normalized_data) : normalized_data[i].reserve_date = v

----------------------------------------------------------------------------
\* Properties of the store_name of a record (SpecRow)

StoreNameCell == MappedGet(raw_data[1], "store_name")
ConfiguredName == n_store.store_name
HasConfiguredName == ConfiguredName.k = "str" /\ ConfiguredName.t # <<>>

\* the store_name the claim describes
ClaimedStoreName ==
    IF HasConfiguredName THEN StrV(ConfiguredName.t)
    ELSE IF Blank(StoreNameCell) THEN NoneV
    ELSE StrV(Strip(StoreNameCell.t))

\* C30: the store_name of an emitted record is the configured name of the
\* store when that is non-empty, whatever the row holds, and otherwise the
\* trimmed store name of the row, absent when the row has none.
C30_StoreNamePrecedence ==
    RowEmitted
    => \A i \in 1..Len(normalized_data) :
         normalized_data[i].store_name = ClaimedStoreName

\* C30 witness: the row names the store "S", the store is configured as "N",
\* and the record says "N"
C30_Witness ==
    /\ RowEmitted
    /\ ConfiguredName = StrCell(<<"N">>)
    /\ StoreNameCell = StrCell(<<"S">>)
    /\ normalized_data[1].store_name = StrV(<<"N">>)

----------------------------------------------------------------------------
\* Properties of the staging object path (SpecObject)

NameReturned == g_pc = "returned"
NoCustomPath == ~Truthy(g_options.custom_path)

\* store_id and run_id given, not manual, no custom path
AutomatedUpload ==
    /\ NameReturned
    /\ NoCustomPath
    /\ ~g_options.is_manual
    /\ g_options.store_id.k = "str" /\ g_options.store_id.t # <<>>
    /\ g_options.run_id.k = "str" /\ g_options.run_id.t # <<>>

ManualUpload == NameReturned /\ NoCustomPath /\ g_options.is_manual

\* yyyymmdd, and the segments of a path joined by the separator
Yyyymmdd ==
    ZeroPad(StrOfInt(g_now.y), 4) \o ZeroPad(StrOfInt(g_now.m), 2)
        \o ZeroPad(StrOfInt(g_now.d), 2)
DayDirs ==
    <<ZeroPad(StrOfInt(g_now.y), 4), ZeroPad(StrOfInt(g_now.m), 2),
      ZeroPad(StrOfInt(g_now.d), 2)>>
LocalFileName == basename(g_path)

AutomatedPath(file) ==
    Join(<<gcs_path_prefix>> \o DayDirs
             \o <<(<<"run_">> \o g_options.run_id.t), file>>, <<"/">>)
ManualPath == Join(<<manual_path_prefix>> \o DayDirs \o <<LocalFileName>>, <<"/">>)

\* C29 (as claimed): an automated upload goes to
\* <prefix>/<yyyy>/<mm>/<dd>/run_<run_id>/<store_id>_<yyyymmdd>.csv, a manual
\* upload to the manual prefix with the name of the local file.
C29_ObjectPathAsClaimed ==
    /\ AutomatedUpload
       => g_name = AutomatedPath(g_options.store_id.t \o <<"_">> \o Yyyymmdd
                                     \o <<".csv">>)
    /\ ManualUpload => g_name = ManualPath

\* C29 (amended): an automated upload goes to
\* <prefix>/<yyyy>/<mm>/<dd>/run_<run_id>/rb_<store_id>_<yyyymmdd>.csv, a
\* manual upload without a custom path to
\* <manual prefix>/<yyyy>/<mm>/<dd>/<name of the local file>.
C29_ObjectPath ==
    /\ AutomatedUpload
       => g_name = AutomatedPath(<<"rb_">> \o g_options.store_id.t \o <<"_">>
                                     \o Yyyymmdd \o <<".csv">>)
    /\ ManualUpload => g_name = ManualPath

\* C29 witness: the automated upload of store S1 in run r1 on 2024-01-05
C29_Witness ==
    /\ AutomatedUpload
    /\ g_name = <<"landing", "/", "restaurant_board", "/", "2", "0", "2", "4",
                  "/", "0", "1", "/", "0", "5", "/", "run_", "r1", "/", "rb_",
                  "S", "1", "_", "2", "0", "2", "4", "0", "1", "0", "5", ".csv">>

----------------------------------------------------------------------------
\* Properties of the order of the attempts of retry_scraping (SpecRetry)

\* a step that starts an attempt: it is the next one, no attempt is in
\* flight (the call has not begun, or the previous attempt has returned and
\* its wait is over), and every earlier attempt was followed by its wait
AttemptStartStep ==
    calls' # calls
    => /\ calls' = calls + 1
       /\ r_pc \in {"idle", "sleeping"}
       /\ r_pc' = "scraping"
       /\ Len(sleeps) = calls

\* attempts made so far, within max_retries
AttemptsWithinLimit == calls <= (IF max_retries > 0 THEN max_retries ELSE 0)

\* C31: the attempts of one call are made strictly one after another: an
\* attempt starts only when the previous one has returned and its backoff
\* wait has elapsed, two attempts are never in flight together, and there
\* are never more than max_retries attempts.
C31_SequentialAttempts == [][AttemptStartStep]_vars /\ []AttemptsWithinLimit

\* C31 witness: the third attempt is in flight, after two attempts that
\* returned and two waits
C31_Witness ==
    /\ r_pc = "scraping"
    /\ calls = 3
    /\ Len(sleeps) = 2

----------------------------------------------------------------------------
\* Properties of the outcome bookkeeping of execute_etl_process (Spec)

SuccessfulEntries == {i \in 1..Len(results) : results[i].success}
FailedEntries == {i \in 1..Len(results) : ~results[i].success}

\* the records of the successful entries among the first n, added up
RECURSIVE RecordsUpTo(_)
RecordsUpTo(n) ==
    IF n = 0 THEN 0
    ELSE RecordsUpTo(n - 1) + (IF results[n].success THEN results[n].records ELSE 0)

\* C32 (as claimed): at the end of the store loop, whatever the stages
\* returned, every store has exactly one entry in results, successful_stores
\* and failed_stores count the entries with success true and false, together
\* they count the stores, and total_records is the sum of the records of the
\* successful entries.
C32_OutcomeBookkeeping ==
    LoopExited
    => /\ \A s \in StoreIds : Cardinality(EntriesOf(s)) = 1
       /\ successful_stores = Cardinality(SuccessfulEntries)
       /\ failed_stores = Cardinality(FailedEntries)
       /\ successful_stores + failed_stores = NumStores
       /\ total_records = RecordsUpTo(Len(results))

\* the tuple the composite key is built from
KeyTuple(r) == <<r.reserve_date, r.start_time, r.course_name, r.headcount, r.channel>>

\* every row of the file gave a record: record i is the record of row i
AllRowsEmitted == n_pc = "staged" /\ Len(normalized_data) = Len(raw_data)

NoNativeId(row) == MapRow(row).reservation_id.k = "none"

\* C33 (as claimed): two rows of one store without a native reservation id
\* whose tuples (reserve_date, start_time, course_name, headcount, channel)
\* differ get different record keys.
C33_CompositeKeyInjective ==
    AllRowsEmitted =>
        \A i, j \in 1..Len(raw_data) :
            (/\ NoNativeId(raw_data[i])
             /\ NoNativeId(raw_data[j])
             /\ KeyTuple(normalized_data[i]) # KeyTuple(normalized_data[j]))
            => normalized_data[i].record_key # normalized_data[j].record_key

\* the columns of the row that column_mapping sends to the field
ColumnsOf(row, field) == {i \in 1..Len(row) : NormalizedKey(row[i].key) = field}

\* two source columns of the row are aliases of reserve_date and at least one
\* of them holds a non-blank value
AliasedReserveDate ==
    /\ Cardinality(ColumnsOf(raw_data[1], "reserve_date")) >= 2
    /\ \E i \in ColumnsOf(raw_data[1], "reserve_date") : ~Blank(raw_data[1][i].value)

\* C34 (as claimed): a row with two aliases of reserve_date of which at least
\* one is non-blank has a non-blank mapped reserve_date and is not rejected:
\* it gives a record with a reserve_date.
C34_AliasKeepsValue ==
    (RowDone /\ AliasedReserveDate) =>
        /\ ~Blank(ReserveDateCell)
        /\ RowEmitted
        /\ normalized_data[1].reserve_date # NoneV

----------------------------------------------------------------------------
\* Properties of the default window of the directory's stores (SpecDirectory)

\* validate_store_data: if days_back < 0 or days_back > 365: return False
DaysBackLimit == 365

\* the stores the loop of the run has gone through
ProcessedStores == {i \in 1..Len(d_stores) : d_pc \in {"loop", "done"} /\ i < d_idx}

\* the store has no explicit dates: calculate_date_range takes its else branch
NoExplicitDates(store) == store.from_date = NoneV /\ store.to_date = NoneV

\* calculate_date_range on a store of the directory without explicit dates
DefaultWindow(store) == calculate_date_range(StoreConfig(store.days_back, NoDate, NoDate))

WellFormedWindow(w) == w.raised \/ w.from_date <= w.to_date

\* C35 (as claimed): every store the directory returned and the run processed
\* has a default window with from_date <= to_date, computed from a days_back
\* in [0, 365].
C35_DefaultWindowWellFormed ==
    \A i \in ProcessedStores :
        NoExplicitDates(d_stores[i]) =>
            /\ d_stores[i].days_back >= 0
            /\ d_stores[i].days_back <= DaysBackLimit
            /\ WellFormedWindow(DefaultWindow(d_stores[i]))

----------------------------------------------------------------------------
\* calculate_date_range with one explicit bound (SpecWindow)

OnlyFromDate(store) == store.from_date # NoDate /\ store.to_date = NoDate
OnlyToDate(store) == store.from_date = NoDate /\ store.to_date # NoDate

\* C36 (as claimed): when the store sets exactly one of from_date / to_date,
\* the returned window has the explicit value at that bound.
C36_SingleExplicitBoundUsed ==
    w_pc = "returned" =>
        /\ OnlyFromDate(w_store) => w_range.from_date = w_store.from_date
        /\ OnlyToDate(w_store) => w_range.to_date = w_store.to_date

----------------------------------------------------------------------------
\* _normalize_integer on the cells of a numeric column (SpecCell)

NumericCellGiven == c_in.k \in {"int", "float"}

\* the number n of the cell IntCell(n) or FloatCell(n)
NumberOf(cell) == IntOf(LeadingDigits(cell.t))

\* C37 (as claimed): for a headcount cell holding the number n >= 0, as an
\* integer or as a float with zero fraction, _normalize_integer returns n; 0
\* gives 0 and 4.0 gives 4.
C37_NumericCellKept ==
    (IntegerReturned /\ NumericCellGiven) => c_out = IntV(NumberOf(c_in))

----------------------------------------------------------------------------
\* retry_scraping with no attempt allowed (SpecRetry)

NoAttemptAllowed == max_retries <= 0

\* C38: with max_retries <= 0 the scrape is never invoked, nothing is waited
\* for, and the call returns a failure response: it neither raises nor
\* reports success.
C38_NoAttemptFails ==
    NoAttemptAllowed =>
        /\ calls = 0
        /\ sleeps = <<>>
        /\ r_pc \in {"idle", "returned"}
        /\ r_pc = "returned" =>
              /\ ~r_result.success
              /\ r_result = FailureResponse(MaxRetriesError(None))

\* C38 witness: a call with max_retries = 0 has returned its failure without
\* an invocation
C38_Witness ==
    /\ r_pc = "returned"
    /\ max_retries = 0
    /\ calls = 0
    /\ ~r_result.success

----------------------------------------------------------------------------
\* Properties of batch_scrape (SpecBatch)

\* entry is what batch_scrape reports for a store whose task ended in result
EntryOfTask(entry, store_id, result) ==
    /\ entry.store_id = store_id
    /\ result.kind = "exception" =>
          /\ ~entry.success
          /\ entry.records_count = 0
          /\ entry.error = result.error
    /\ result.kind = "response" =>
          /\ entry.success = result.success
          /\ entry.error = result.error
          /\ entry.csv_path = result.csv_path
          /\ entry.records_count =
                (IF result.records_count = NoCount THEN 0 ELSE result.records_count)

\* the returned list has one entry per input store, entry i for store i
BatchEntriesInOrder ==
    b_pc = "returned" =>
        /\ Len(b_results) = Len(b_stores)
        /\ \A i \in 1..Len(b_stores) :
              EntryOfTask(b_results[i], b_stores[i], b_tasks[i].result)

\* a step changes the state of one task at most, and never a finished task
OneTaskPerStep ==
    Len(b_tasks') = Len(b_tasks) =>
        \A i \in 1..Len(b_tasks) :
            b_tasks'[i] # b_tasks[i] =>
                /\ b_tasks[i].pc # "done"
                /\ \A j \in 1..Len(b_tasks) : j # i => b_tasks'[j] = b_tasks[j]

\* C39: whatever the interleaving and the completion order of the tasks, the
\* list batch_scrape returns has exactly one entry per input store, entry i
\* with the store_id of store i and the outcome of its task, a task that
\* raised being a failure entry with records_count 0; a step of one task,
\* failing or raising, changes no other task's state or result.
C39_BatchEntriesPerStore == [][OneTaskPerStep]_vars /\ []BatchEntriesInOrder

\* C39 witness: two stores, the second task finished first with a success,
\* the first task raised; the list returned has the failure first
C39_Witness ==
    /\ b_pc = "returned"
    /\ Len(b_stores) = 2
    /\ b_order = <<2, 1>>
    /\ b_tasks[1].result.kind = "exception"
    /\ b_tasks[2].result.success
    /\ ~b_results[1].success
    /\ b_results[1].records_count = 0
    /\ b_results[2].success
    /\ b_results[2].records_count = 2

====
